---------------------------- MODULE Spec2Model ----------------------------
(***************************************************************************)
(* A model of go-parsesyslog: the RFC5424 ("versioned") decoder of         *)
(* src/rfc5424/rfc5424.go (current revision, lines 642-1185) and the       *)
(* RFC3164 ("legacy") decoder of src/unnamed/part_013 with the timestamp   *)
(* parser of src/unnamed/part_012.                                         *)
(*                                                                         *)
(* Bytes are their integer values.  A Go byte slice that aliases memory    *)
(* owned by the decoder instance is a record [mem, lo, hi] (the half-open  *)
(* range lo..hi of the named backing array) and is read through Deref, so  *)
(* that a later write to the backing array shows in a slice returned       *)
(* earlier, as it does in Go.                                              *)
(*                                                                         *)
(* One action is one ParseString call: the whole handler, computed by the  *)
(* operators below, which follow the Go functions of the same names.       *)
(***************************************************************************)
EXTENDS Integers, Sequences, FiniteSets, TLC

(***************************************************************************)
(* Bytes and text                                                          *)
(***************************************************************************)
space        == 32
dash         == 45
lowerThan    == 60
greaterThan  == 62
colon        == 58
newline      == 10
leftBracket  == 91
rightBracket == 93
quote        == 34
backslash    == 92
equalSign    == 61

\* The printable ASCII characters of code points 32..95 and 97..126, in order.
PrintableLow  == " !\"#$%&'()*+,-./0123456789:;<=>?@ABCDEFGHIJKLMNOPQRSTUVWXYZ[\\]^_"
PrintableHigh == "abcdefghijklmnopqrstuvwxyz{|}~"

Ord == [c \in {SubSeq(PrintableLow, k, k) : k \in 1..Len(PrintableLow)}
               \cup {SubSeq(PrintableHigh, k, k) : k \in 1..Len(PrintableHigh)} |->
          IF \E k \in 1..Len(PrintableLow) : SubSeq(PrintableLow, k, k) = c
          THEN 31 + (CHOOSE k \in 1..Len(PrintableLow) : SubSeq(PrintableLow, k, k) = c)
          ELSE 96 + (CHOOSE k \in 1..Len(PrintableHigh) : SubSeq(PrintableHigh, k, k) = c)]

\* The bytes of an ASCII string.
B(s) == [i \in 1..Len(s) |-> Ord[SubSeq(s, i, i)]]

IsDigit(b) == b >= 48 /\ b <= 57

\* b[lo:hi] of Go (0-based, half-open) on a sequence.
Slice(b, lo, hi) == SubSeq(b, lo + 1, hi)

(***************************************************************************)
(* Errors.  An error is the name of the sentinel it is or wraps (what      *)
(* errors.Is sees); NoErr is nil.                                          *)
(***************************************************************************)
NoErr == "nil"
ErrWrongFormat         == "ErrWrongFormat"
ErrInvalidPrio         == "ErrInvalidPrio"
ErrInvalidProtoVersion == "ErrInvalidProtoVersion"
ErrInvalidTimestamp    == "ErrInvalidTimestamp"
ErrWrongSDFormat       == "ErrWrongSDFormat"
ErrInvalidLength       == "ErrInvalidLength"
ErrInvalidNumber       == "ErrInvalidNumber"
ErrPrematureEOF        == "ErrPrematureEOF"
\* io.EOF of the standard library, and the errors of the legacy decoder that
\* are not declared in error.go.
ioEOF           == "io.EOF"
ErrBadLength    == "rfc3164.ErrBadLength"
ErrBadFormat    == "rfc3164.ErrBadFormat"
ErrBadMonth     == "rfc3164.ErrBadMonth"
ErrBadNumber    == "rfc3164.ErrBadNumber"
ErrOutOfRange   == "rfc3164.ErrOutOfRange"
\* A run-time panic is not an error value: the call does not return.
Panic == "panic"

EnumeratedErrors ==
  { ErrWrongFormat, ErrInvalidPrio, ErrInvalidProtoVersion, ErrInvalidTimestamp,
    ErrWrongSDFormat, ErrInvalidLength, ErrInvalidNumber, ErrPrematureEOF }

(***************************************************************************)
(* The buffered reader of one call: a bufio.Reader over the caller's       *)
(* io.Reader.  data is the stream the source delivers and pos the number   *)
(* of its bytes the decoder has consumed.  buf is the reader's buffer as   *)
(* far as it has been written, r and w its read and write positions, src   *)
(* the number of bytes taken from the source, chunk the most bytes one     *)
(* Read of the source delivers and eof the pending io.EOF of the last Read.*)
(* The versioned decoder copies every byte it keeps, so for it only data   *)
(* and pos are followed.                                                   *)
(***************************************************************************)
bufioSize == 1024

NewReader(bytes) ==
  [ data |-> bytes, pos |-> 0, buf |-> <<>>, r |-> 0, w |-> 0, src |-> 0,
    chunk |-> bufioSize, eof |-> FALSE ]
Buffered(rd)     == Len(rd.data) - rd.pos
AtEOF(rd)        == rd.pos >= Len(rd.data)
NextByte(rd)     == rd.data[rd.pos + 1]
Advance(rd, n)   == [rd EXCEPT !.pos = @ + n]
\* Peek(n) fails (io.EOF) when fewer than n bytes are left.
PeekFails(rd, n) == Buffered(rd) < n
Peek(rd, n)      == SubSeq(rd.data, rd.pos + 1, rd.pos + n)

\* copy(buf[at:], bytes)
BufCopy(buf, at, bytes) ==
  [i \in 1..(IF at + Len(bytes) > Len(buf) THEN at + Len(bytes) ELSE Len(buf)) |->
     IF i > at /\ i <= at + Len(bytes) THEN bytes[i - at] ELSE buf[i]]

\* b.fill(): the unread bytes slide to the start of the buffer and one Read
\* of the source is appended to them.
fill(rd) ==
  LET kept == rd.w - rd.r
      slid == IF rd.r > 0 THEN BufCopy(rd.buf, 0, SubSeq(rd.buf, rd.r + 1, rd.w)) ELSE rd.buf
      rest == Len(rd.data) - rd.src
      room == bufioSize - kept
      most == IF rd.chunk < room THEN rd.chunk ELSE room
      n    == IF rest < most THEN rest ELSE most
  IN [rd EXCEPT !.buf = BufCopy(slid, kept, SubSeq(rd.data, rd.src + 1, rd.src + n)),
                !.r = 0, !.w = kept + n, !.src = @ + n, !.eof = (n = 0)]

\* b.ReadByte() and b.Discard(1) when a byte is left: the buffer is filled
\* if it is empty, and one byte is taken.
ReadByte(rd) ==
  CHOOSE res \in { [q EXCEPT !.pos = @ + 1, !.r = @ + 1]
                   : q \in {IF rd.r = rd.w THEN fill(rd) ELSE rd} } : TRUE

\* One turn of the loop of b.ReadSlice(delim).  t holds the reader, the
\* search start s, and the result: the line buf[lo:hi] and the error.
ReadSliceTurn(t) ==
  LET rd   == t.rd
      hits == {k \in (rd.r + t.s + 1)..rd.w : rd.buf[k] = t.delim}
  IN IF hits # {}
     THEN LET k == CHOOSE k \in hits : \A j \in hits : k <= j
          IN [t EXCEPT !.lo = rd.r, !.hi = k, !.ret = TRUE,
                       !.rd = [rd EXCEPT !.pos = @ + (k - rd.r), !.r = k]]
     ELSE IF rd.eof
     THEN [t EXCEPT !.lo = rd.r, !.hi = rd.w, !.err = ioEOF, !.ret = TRUE,
                    !.rd = [rd EXCEPT !.pos = @ + (rd.w - rd.r), !.r = rd.w, !.eof = FALSE]]
     ELSE IF rd.w - rd.r >= bufioSize
     THEN [t EXCEPT !.lo = 0, !.hi = bufioSize, !.err = "bufio.ErrBufferFull", !.ret = TRUE,
                    !.rd = [rd EXCEPT !.pos = @ + (rd.w - rd.r), !.r = rd.w]]
     ELSE [t EXCEPT !.s = rd.w - rd.r, !.rd = fill(rd)]

RECURSIVE ReadSliceLoop(_, _)
ReadSliceLoop(t, n) ==
  IF t.ret \/ n = 0 THEN t
  ELSE IF n = 1 THEN ReadSliceTurn(t)
  ELSE CHOOSE res \in {ReadSliceLoop(u, m) : u \in {ReadSliceLoop(t, n \div 2)},
                                             m \in {n - n \div 2}} : TRUE

\* b.ReadSlice(delim): every turn but the last takes a Read from the source.
ReadSlice(rd, delim) ==
  ReadSliceLoop([rd |-> rd, delim |-> delim, s |-> 0, lo |-> 0, hi |-> 0,
                 err |-> NoErr, ret |-> FALSE], Len(rd.data) - rd.src + 3)

(***************************************************************************)
(* ParseUintBytes is called by both decoders and declared nowhere under    *)
(* src/; it is modelled from its specification (section 4.1) and its test  *)
(* (src/parsesyslog_test.go:13-47): the decimal value of a non-empty       *)
(* string of ASCII digits, ErrInvalidNumber otherwise.                     *)
(***************************************************************************)
RECURSIVE DecimalValue(_, _)
DecimalValue(b, n) ==
  IF n = 0 THEN 0 ELSE 10 * DecimalValue(b, n - 1) + (b[n] - 48)

\* ParseUintBytes without the test for the empty input.
ParseUintBytesOfEmpty(b) ==
  IF \A i \in 1..Len(b) : IsDigit(b[i])
  THEN [val |-> DecimalValue(b, Len(b)), err |-> NoErr]
  ELSE [val |-> 0, err |-> ErrInvalidNumber]

ParseUintBytes(b) ==
  IF Len(b) > 0 /\ \A i \in 1..Len(b) : IsDigit(b[i])
  THEN [val |-> DecimalValue(b, Len(b)), err |-> NoErr]
  ELSE [val |-> 0, err |-> ErrInvalidNumber]

\* The decimal digits of a natural number (fmt's %d), for building frames.
RECURSIVE Digits(_)
Digits(n) == IF n < 10 THEN <<48 + n>> ELSE Append(Digits(n \div 10), 48 + (n % 10))

(***************************************************************************)
(* ReadBytesUntilSpaceOrNilValue (src/common.go:48-66) reads a header      *)
(* field from a bufio.Reader into a bytes.Buffer of the caller.  The       *)
(* package has constants of its own: its space is the byte above, its dash *)
(* (common.go:16) is not the dash of package rfc5424.                      *)
(***************************************************************************)
commonDash == 32

\* n turns of the loop (common.go:51-65), the case n = 1 being one turn.  t
\* holds the reader, the buffer, bytesRead and the error.
RECURSIVE readBytesLoop(_, _)
readBytesLoop(t, n) ==
  IF t.ret \/ n = 0 THEN t
  ELSE IF n = 1
  THEN IF AtEOF(t.rd) THEN [t EXCEPT !.err = ioEOF, !.ret = TRUE]
       ELSE LET data == NextByte(t.rd)
                isNilValue == /\ data = commonDash
                              /\ Len(t.buffer) > 0
                              /\ t.buffer[Len(t.buffer)] = space
            IN IF data = space \/ isNilValue
               THEN [t EXCEPT !.rd = ReadByte(@), !.bytesRead = @ + 1, !.ret = TRUE]
               ELSE [t EXCEPT !.rd = ReadByte(@), !.bytesRead = @ + 1,
                              !.buffer = Append(@, data)]
  ELSE CHOOSE res \in {readBytesLoop(u, m) : u \in {readBytesLoop(t, n \div 2)},
                                             m \in {n - n \div 2}} : TRUE

\* buffer.Reset(), then the loop: every turn but the last takes a byte.
ReadBytesUntilSpaceOrNilValue(reader, buffer) ==
  readBytesLoop([rd |-> reader, buffer |-> SubSeq(buffer, 1, 0), bytesRead |-> 0,
                 err |-> NoErr, ret |-> FALSE], Len(reader.data) + 1)

(***************************************************************************)
(* Priority, facility, severity (src/rfc5424.go)                           *)
(***************************************************************************)
SeverityMask == 7

\* The facility bits left in place: p & FacilityMask without the shift.
FacilityFromPrioMasked(p) == p - (p % 8)

FacilityFromPrio(p) == p \div 8

SeverityFromPrio(p) == p % (SeverityMask + 1)

(***************************************************************************)
(* LogMsg (src/logmsg.go:78-93).  Host, App, PID and MsgID are slices;     *)
(* StructuredData is a slice of elements (heap array arr, length n);       *)
(* Message is a bytes.Buffer the record owns; Timestamp is the text that   *)
(* was parsed, empty for the zero time.                                    *)
(***************************************************************************)
NilSlice == [mem |-> "nil", lo |-> 0, hi |-> 0]
MkSlice(mem, lo, hi) == [mem |-> mem, lo |-> lo, hi |-> hi]
SliceLen(s) == s.hi - s.lo
NilSD == [nil |-> TRUE, arr |-> 0, n |-> 0]

NewLogMsg(type) ==
  [ Type |-> type, Priority |-> 0, Facility |-> 0, Severity |-> 0,
    ProtoVersion |-> 0, Timestamp |-> <<>>, Host |-> NilSlice, App |-> NilSlice,
    PID |-> NilSlice, MsgID |-> NilSlice, StructuredData |-> NilSD,
    HasBOM |-> FALSE, Message |-> <<>>, MsgLength |-> 0 ]

(***************************************************************************)
(* The versioned decoder, src/rfc5424/rfc5424.go.  A parse state p holds   *)
(* the reader, the instance fields (arena, offset, len, buf, sds), the     *)
(* LogMsg being filled and the error of the step just made.                *)
(***************************************************************************)
arenaCap == 2048
maxPrio  == 191

\* r.arena = r.arena[:r.offset+1]; r.arena[r.offset] = c.  The arena is the
\* backing array as far as it has ever been written.
ArenaWrite(arena, offset, c) ==
  IF offset < Len(arena) THEN [arena EXCEPT ![offset + 1] = c] ELSE Append(arena, c)

\* A set constructor {e(q) : q \in {x}} names the value of x as q in e, so
\* that x is computed once; CHOOSE takes the one element of the singleton.

\* A loop of the code is written as one turn (the loop body) and as at most n
\* turns: n \div 2 turns, then the remaining ones.  The field ret of the
\* state says that the loop has ended by break or return.

readByte(p) ==
  IF AtEOF(p.rd) THEN [p EXCEPT !.err = ioEOF]
  ELSE LET c == NextByte(p.rd)
           q == [p EXCEPT !.rd = Advance(@, 1)]
       IN IF q.offset >= arenaCap
          THEN [q EXCEPT !.err = ErrWrongFormat]
          ELSE [q EXCEPT !.arena = ArenaWrite(@, q.offset, c),
                         !.offset = @ + 1, !.len = @ + 1, !.err = NoErr]

\* One turn of the loop of readUntil.
readUntilTurn(p, until, include) ==
  IF PeekFails(p.rd, 1) THEN [p EXCEPT !.err = ioEOF, !.ret = TRUE]
  ELSE IF NextByte(p.rd) = until
       THEN IF ~include
            THEN [p EXCEPT !.rd = Advance(@, 1), !.len = @ + 1, !.err = NoErr,
                           !.ret = TRUE]
            ELSE [readByte(p) EXCEPT !.ret = TRUE]
       ELSE LET q == readByte(p) IN [q EXCEPT !.ret = (q.err # NoErr)]

RECURSIVE readUntilLoop(_, _, _, _)
readUntilLoop(p, until, include, n) ==
  IF p.ret \/ n = 0 THEN p
  ELSE IF n = 1 THEN readUntilTurn(p, until, include)
  ELSE CHOOSE r \in {readUntilLoop(q, until, include, m)
                     : q \in {readUntilLoop(p, until, include, n \div 2)},
                       m \in {n - n \div 2}} : TRUE

\* Every turn but the last consumes a byte: Buffered + 1 turns end the loop.
readUntil(p, until, include) ==
  [readUntilLoop(p, until, include, Buffered(p.rd) + 1) EXCEPT !.ret = FALSE]

sliceFrom(p, start) == MkSlice("arena", start, p.offset)
ArenaBytes(p, s) == Slice(p.arena, s.lo, s.hi)

\* Returns the parse state with the declared length in want.
parseMessageLength(p) ==
  CHOOSE res \in { IF q.err # NoErr THEN [q EXCEPT !.want = 0]
        ELSE LET val == sliceFrom(q, p.offset)
                 n   == ParseUintBytes(ArenaBytes(q, val))
             IN [q EXCEPT !.len = @ - SliceLen(val) - 1, !.want = n.val, !.err = n.err]
        : q \in {readUntil(p, space, FALSE)} } : TRUE

\* parsePriority without the range check of rfc5424.go:1023-1025.
parsePriorityUnchecked(p) ==
  CHOOSE res \in { IF q.err # NoErr THEN q
        ELSE LET val == ArenaBytes(q, sliceFrom(q, p.offset))
             IN IF val[1] # lowerThan \/ val[Len(val)] # greaterThan
                THEN [q EXCEPT !.err = ErrInvalidPrio]
                ELSE LET n == ParseUintBytes(Slice(val, 1, Len(val) - 1))
                     IN IF n.err # NoErr THEN [q EXCEPT !.err = n.err]
                        ELSE [q EXCEPT !.lm.Priority = n.val,
                                       !.lm.Facility = FacilityFromPrio(n.val),
                                       !.lm.Severity = SeverityFromPrio(n.val)]
        : q \in {readUntil(p, greaterThan, TRUE)} } : TRUE

parsePriority(p) ==
  CHOOSE res \in { IF q.err # NoErr THEN q
        ELSE LET val == ArenaBytes(q, sliceFrom(q, p.offset))
             IN IF val[1] # lowerThan \/ val[Len(val)] # greaterThan
                THEN [q EXCEPT !.err = ErrInvalidPrio]
                ELSE LET n == ParseUintBytes(Slice(val, 1, Len(val) - 1))
                     IN IF n.err # NoErr THEN [q EXCEPT !.err = n.err]
                        ELSE IF n.val < 0 \/ n.val > maxPrio
                             THEN [q EXCEPT !.err = ErrInvalidPrio]
                             ELSE [q EXCEPT !.lm.Priority = n.val,
                                            !.lm.Facility = FacilityFromPrio(n.val),
                                            !.lm.Severity = SeverityFromPrio(n.val)]
        : q \in {readUntil(p, greaterThan, TRUE)} } : TRUE

\* parseProtoVersion with the assignment made before the value is tested.
parseProtoVersionAssignsFirst(p) ==
  CHOOSE res \in { IF q.err # NoErr THEN q
        ELSE LET n == ParseUintBytes(ArenaBytes(q, sliceFrom(q, p.offset)))
             IN IF n.err # NoErr \/ n.val # 1
                THEN [q EXCEPT !.err = ErrInvalidProtoVersion, !.lm.ProtoVersion = n.val]
                ELSE [q EXCEPT !.lm.ProtoVersion = n.val]
        : q \in {readUntil(p, space, FALSE)} } : TRUE

parseProtoVersion(p) ==
  CHOOSE res \in { IF q.err # NoErr THEN q
        ELSE LET n == ParseUintBytes(ArenaBytes(q, sliceFrom(q, p.offset)))
             IN IF n.err # NoErr \/ n.val # 1
                THEN [q EXCEPT !.err = ErrInvalidProtoVersion]
                ELSE [q EXCEPT !.lm.ProtoVersion = n.val]
        : q \in {readUntil(p, space, FALSE)} } : TRUE

(***************************************************************************)
(* time.Parse(time.RFC3339, s) of the standard library, as called at       *)
(* rfc5424.go:1062: "2006-01-02T15:04:05Z07:00".  Year, month, day, minute *)
(* and second have fixed widths; the hour may have one digit; a fraction   *)
(* introduced by '.' or ',' may follow the seconds; the zone is Z or       *)
(* +hh:mm / -hh:mm; nothing may follow.                                    *)
(***************************************************************************)
At(b, i) == IF i >= 1 /\ i <= Len(b) THEN b[i] ELSE -1
Num2(b, i) == IF IsDigit(At(b, i)) /\ IsDigit(At(b, i + 1))
              THEN 10 * (b[i] - 48) + (b[i + 1] - 48) ELSE -1
IsLeap(y) == y % 4 = 0 /\ (y % 100 # 0 \/ y % 400 = 0)
daysIn(m, y) == IF m = 2 THEN (IF IsLeap(y) THEN 29 ELSE 28)
                ELSE IF m \in {4, 6, 9, 11} THEN 30 ELSE 31

RECURSIVE SkipDigits(_, _)
SkipDigits(b, i) == IF IsDigit(At(b, i)) THEN SkipDigits(b, i + 1) ELSE i

IsRFC3339(b) ==
  LET year  == IF Num2(b, 1) >= 0 /\ Num2(b, 3) >= 0
               THEN 100 * Num2(b, 1) + Num2(b, 3) ELSE -1
      month == Num2(b, 6)
      day   == Num2(b, 9)
      hw    == IF IsDigit(At(b, 13)) THEN 2 ELSE 1
      hour  == IF hw = 2 THEN Num2(b, 12)
               ELSE IF IsDigit(At(b, 12)) THEN b[12] - 48 ELSE -1
      min   == Num2(b, 13 + hw)
      sec   == Num2(b, 16 + hw)
      z0    == 18 + hw
      z     == IF At(b, z0) \in {46, 44} /\ IsDigit(At(b, z0 + 1))
               THEN SkipDigits(b, z0 + 1) ELSE z0
      zone  == \/ At(b, z) = 90 /\ Len(b) = z
               \/ /\ At(b, z) \in {43, 45}
                  /\ Num2(b, z + 1) >= 0 /\ Num2(b, z + 1) < 24
                  /\ At(b, z + 3) = colon
                  /\ Num2(b, z + 4) >= 0 /\ Num2(b, z + 4) < 60
                  /\ Len(b) = z + 5
  IN /\ year >= 0
     /\ At(b, 5) = dash /\ month >= 1 /\ month <= 12
     /\ At(b, 8) = dash /\ day >= 1 /\ day <= daysIn(month, year)
     /\ At(b, 11) = 84
     /\ hour >= 0 /\ hour < 24
     /\ At(b, 12 + hw) = colon /\ min >= 0 /\ min < 60
     /\ At(b, 15 + hw) = colon /\ sec >= 0 /\ sec < 60
     /\ zone

\* parseTimestamp without the NILVALUE test of rfc5424.go:1058-1061.
parseTimestampNoNil(p) ==
  CHOOSE res \in
    { IF q.err # NoErr THEN q
      ELSE CHOOSE res \in { IF ~IsRFC3339(tsBytes)
                            THEN [q EXCEPT !.err = ErrInvalidTimestamp]
                            ELSE [q EXCEPT !.lm.Timestamp = tsBytes]
                            : tsBytes \in {ArenaBytes(q, sliceFrom(q, p.offset))} } : TRUE
      : q \in {readUntil(p, space, FALSE)} } : TRUE

parseTimestamp(p) ==
  CHOOSE res \in { IF q.err # NoErr THEN q
        ELSE CHOOSE res \in { IF Len(tsBytes) = 0 \/ (Len(tsBytes) = 1 /\ tsBytes[1] = dash)
                   THEN [q EXCEPT !.offset = p.offset]
                   ELSE IF ~IsRFC3339(tsBytes)
                        THEN [q EXCEPT !.err = ErrInvalidTimestamp]
                        ELSE [q EXCEPT !.lm.Timestamp = tsBytes]
                   : tsBytes \in {ArenaBytes(q, sliceFrom(q, p.offset))} } : TRUE
        : q \in {readUntil(p, space, FALSE)} } : TRUE

\* NilAwareField with every field that begins with a dash taken as NILVALUE.
NilAwareFieldAnyDash(p) ==
  CHOOSE res \in
    { IF q.err # NoErr THEN [p |-> q, val |-> NilSlice]
      ELSE LET v == sliceFrom(q, p.offset)
               b == ArenaBytes(q, v)
           IN IF Len(b) = 0 \/ b[1] = dash
              THEN [p |-> [q EXCEPT !.offset = p.offset], val |-> NilSlice]
              ELSE [p |-> q, val |-> v]
      : q \in {readUntil(p, space, FALSE)} } : TRUE

\* parseHostname, parseAppName, parseProcID and parseMsgID differ only in the
\* LogMsg field they assign; NilAwareField is their common body.
NilAwareField(p) ==
  CHOOSE res \in { IF q.err # NoErr THEN [p |-> q, val |-> NilSlice]
        ELSE LET v == sliceFrom(q, p.offset)
                 b == ArenaBytes(q, v)
             IN IF Len(b) = 0 \/ (Len(b) = 1 /\ b[1] = dash)
                THEN [p |-> [q EXCEPT !.offset = p.offset], val |-> NilSlice]
                ELSE [p |-> q, val |-> v]
        : q \in {readUntil(p, space, FALSE)} } : TRUE

parseHostname(p) ==
  CHOOSE res \in { IF f.val = NilSlice THEN f.p ELSE [f.p EXCEPT !.lm.Host = f.val]
        : f \in {NilAwareField(p)} } : TRUE

parseAppName(p) ==
  CHOOSE res \in { IF f.val = NilSlice THEN f.p ELSE [f.p EXCEPT !.lm.App = f.val]
        : f \in {NilAwareField(p)} } : TRUE

parseProcID(p) ==
  CHOOSE res \in { IF f.val = NilSlice THEN f.p ELSE [f.p EXCEPT !.lm.PID = f.val]
        : f \in {NilAwareField(p)} } : TRUE

parseMsgID(p) ==
  CHOOSE res \in { IF f.val = NilSlice THEN f.p ELSE [f.p EXCEPT !.lm.MsgID = f.val]
        : f \in {NilAwareField(p)} } : TRUE

parseHeader(p) ==
  CHOOSE res \in
    {IF s6.err # NoErr THEN s6 ELSE parseMsgID(s6) : s6 \in
    {IF s5.err # NoErr THEN s5 ELSE parseProcID(s5) : s5 \in
    {IF s4.err # NoErr THEN s4 ELSE parseAppName(s4) : s4 \in
    {IF s3.err # NoErr THEN s3 ELSE parseHostname(s3) : s3 \in
    {IF s2.err # NoErr THEN s2 ELSE parseTimestamp(s2) : s2 \in
    {IF s1.err # NoErr THEN s1 ELSE parseProtoVersion(s1) : s1 \in
    {parsePriority(p)}}}}}}} : TRUE

handleParseError(err) == IF err = ioEOF THEN ErrPrematureEOF ELSE err

(***************************************************************************)
(* parseStructuredData.  r.buf is a bytes.Buffer: buf is its backing array *)
(* as far as it has been written, bufLen its length (Reset sets the length *)
(* to 0 and keeps the array; the structured data of the model stays below  *)
(* the 64 bytes the first write allocates, so the array is never replaced).*)
(* r.sds is a slice of elements: sdsHeap holds every array append has      *)
(* allocated for it (the last one is the current), sdsLen is its length.   *)
(***************************************************************************)
ZeroElem  == [ID |-> NilSlice, Param |-> <<>>]
ZeroParam == [Name |-> NilSlice, Value |-> NilSlice]

\* r.sds = append(r.sds, sd): in place while the capacity lasts, else into a
\* new array of doubled capacity that receives a copy of the elements.
appendSds(p, sd) ==
  LET cur == Len(p.sdsHeap)
      cap == IF cur = 0 THEN 0 ELSE Len(p.sdsHeap[cur])
  IN IF p.sdsLen < cap
     THEN [p EXCEPT !.sdsHeap[cur][p.sdsLen + 1] = sd, !.sdsLen = @ + 1]
     ELSE LET newcap == IF cap = 0 THEN 1 ELSE 2 * cap
              kept   == IF cur = 0 THEN <<>> ELSE SubSeq(p.sdsHeap[cur], 1, p.sdsLen)
              arr    == kept \o <<sd>> \o [k \in 1..(newcap - p.sdsLen - 1) |-> ZeroElem]
          IN [p EXCEPT !.sdsHeap = Append(@, arr), !.sdsLen = @ + 1]

\* One turn of the first loop (rfc5424.go:836-879), which copies bytes to
\* r.buf up to the end of input or to the space that follows the last closing
\* bracket.  t holds the parse state p, the locals inQuotes and depth,
\* n = len(sdContent) and the error the loop returns.
sdScanTurn(t) ==
  IF AtEOF(t.p.rd) THEN [t EXCEPT !.n = t.p.bufLen, !.ret = TRUE]
  ELSE
  LET data == NextByte(t.p.rd)
      q    == [t.p EXCEPT !.rd = Advance(@, 1),
                          !.buf = ArenaWrite(@, t.p.bufLen, data),
                          !.bufLen = @ + 1]
      inQ  == IF data = quote THEN ~t.inQuotes ELSE t.inQuotes
      u    == [t EXCEPT !.p = q, !.inQuotes = inQ]
  IN IF ~inQ /\ data = space /\ t.depth = 0
     THEN [u EXCEPT !.p.rd = [@ EXCEPT !.pos = @ - 1], !.n = q.bufLen - 1, !.ret = TRUE]
     ELSE IF ~inQ /\ data = leftBracket THEN [u EXCEPT !.depth = @ + 1]
     ELSE IF ~inQ /\ data = rightBracket THEN [u EXCEPT !.depth = @ - 1]
     ELSE IF t.depth < 0 THEN [u EXCEPT !.err = ErrWrongSDFormat, !.ret = TRUE]
     ELSE u

RECURSIVE sdScan(_, _)
sdScan(t, n) ==
  IF t.ret \/ n = 0 THEN t
  ELSE IF n = 1 THEN sdScanTurn(t)
  ELSE CHOOSE r \in {sdScan(u, m) : u \in {sdScan(t, n \div 2)}, m \in {n - n \div 2}} : TRUE

\* One turn of the second loop (rfc5424.go:899-973) over message = r.buf[0:n].
\* t holds the parse state p and the locals i, sd, sdp, start, insideValue.  A
\* slice expression with start > i, or an index below 0, panics in Go.
sdElementsTurn(t, n) ==
  IF t.i >= n THEN [t EXCEPT !.ret = TRUE]
  ELSE
  LET i       == t.i
      b       == t.p.buf[i + 1]
      m(k)    == t.p.buf[k + 1]
      sub     == MkSlice("buf", t.start, i)
      fail(e) == [t EXCEPT !.p.err = e, !.ret = TRUE]
      next(u) == [u EXCEPT !.i = @ + 1]
  IN
  IF b = rightBracket /\ t.insideValue /\ m(i - 1) # backslash /\ i - 2 < 0
  THEN fail(Panic)
  ELSE IF b = rightBracket /\ t.insideValue /\ m(i - 1) # backslash /\ m(i - 2) # backslash
  THEN fail(ErrWrongSDFormat)
  ELSE IF b = quote
  THEN IF t.insideValue
       THEN IF m(i - 1) = backslash THEN next(t)
            ELSE IF SliceLen(t.sdp.Name) = 0 THEN fail(ErrWrongSDFormat)
            ELSE IF t.start > i THEN fail(Panic)
            ELSE next([t EXCEPT !.sd.Param = Append(@, [t.sdp EXCEPT !.Value = sub]),
                                !.sdp = ZeroParam, !.insideValue = FALSE, !.start = i + 1])
       ELSE next([t EXCEPT !.insideValue = TRUE, !.start = i + 1])
  ELSE IF t.insideValue THEN next(t)
  ELSE IF b = equalSign
  THEN IF t.start > i THEN fail(Panic)
       ELSE next([t EXCEPT !.sdp.Name = sub, !.start = i + 1])
  ELSE IF b = rightBracket
  THEN IF t.sd.ID = NilSlice /\ t.start > i THEN fail(Panic)
       ELSE LET sd2 == IF t.sd.ID = NilSlice THEN [t.sd EXCEPT !.ID = sub] ELSE t.sd
                u   == [t EXCEPT !.p = appendSds(t.p, sd2), !.sd = ZeroElem]
            IN IF i + 1 < n /\ m(i + 1) = leftBracket
               THEN next([u EXCEPT !.start = i + 2])
               ELSE [u EXCEPT !.start = i + 1, !.ret = TRUE]
  ELSE IF b = space
  THEN IF t.sd.ID # NilSlice /\ Len(t.sd.Param) = 0 THEN fail(ErrWrongSDFormat)
       ELSE IF t.sd.ID = NilSlice
            THEN IF t.start > i THEN fail(Panic)
                 ELSE next([t EXCEPT !.sd.ID = sub, !.start = i + 1])
            ELSE next([t EXCEPT !.start = i + 1])
  ELSE next(t)

RECURSIVE sdElements(_, _, _)
sdElements(t, n, k) ==
  IF t.ret \/ k = 0 THEN t
  ELSE IF k = 1 THEN sdElementsTurn(t, n)
  ELSE CHOOSE r \in {sdElements(u, n, m) : u \in {sdElements(t, n, k \div 2)},
                                           m \in {k - k \div 2}} : TRUE

\* The part of parseStructuredData after the first loop; sc is what the loop
\* left: the parse state, len(sdContent) and the error.
sdAfterScan(sc) ==
  IF sc.err # NoErr THEN [sc.p EXCEPT !.err = sc.err]
  ELSE
  LET n  == sc.n
      p3 == [sc.p EXCEPT !.len = @ + n]
  IN
  IF n < 2 \/ p3.buf[1] # leftBracket \/ p3.buf[n] # rightBracket
  THEN IF n # 0 THEN [p3 EXCEPT !.err = ErrWrongSDFormat] ELSE p3
  ELSE
  CHOOSE r \in
    { IF p4.err # NoErr THEN p4
      ELSE LET p5 == [p4 EXCEPT !.lm.StructuredData =
                                   [nil |-> FALSE, arr |-> Len(p4.sdsHeap), n |-> p4.sdsLen],
                                !.len = @ + 1]
           IN IF AtEOF(p5.rd) THEN [p5 EXCEPT !.err = ioEOF]
              ELSE [p5 EXCEPT !.rd = Advance(@, 1)]
      : p4 \in {sdElements([p |-> p3, i |-> 1, sd |-> ZeroElem, sdp |-> ZeroParam,
                            start |-> 1, insideValue |-> FALSE, ret |-> FALSE], n, n).p} } : TRUE

parseStructuredData(p0) ==
  LET p == [p0 EXCEPT !.sdsLen = 0, !.bufLen = 0] IN
  IF AtEOF(p.rd) THEN [p EXCEPT !.err = ioEOF]
  ELSE
  LET nextByte == NextByte(p.rd)
      p1       == [p EXCEPT !.rd = Advance(@, 1)]
      p2       == [p1 EXCEPT !.buf = ArenaWrite(@, 0, nextByte), !.bufLen = 1]
  IN
  IF nextByte = dash
  THEN IF AtEOF(p1.rd) THEN [p1 EXCEPT !.lm.StructuredData = NilSD]
       ELSE IF NextByte(p1.rd) # space
            \* The byte is read and unread; the second UnreadByte has nothing
            \* to unread (bufio keeps one byte) and its error is dropped.
            THEN [p1 EXCEPT !.err = ErrWrongSDFormat]
            ELSE [p1 EXCEPT !.rd = Advance(@, 1), !.lm.StructuredData = NilSD,
                            !.len = @ + 2]
  ELSE IF nextByte # leftBracket THEN [p1 EXCEPT !.err = ErrWrongSDFormat]
  ELSE CHOOSE r \in
         { sdAfterScan(sc)
           : sc \in {sdScan([p |-> p2, inQuotes |-> FALSE, depth |-> 1, n |-> 0,
                             err |-> NoErr, ret |-> FALSE], Buffered(p2.rd) + 1)} } : TRUE

BOM == <<239, 187, 191>>

\* parseBOM that takes the byte order mark out of the payload.
parseBOMStripped(p) ==
  IF PeekFails(p.rd, 3) THEN [p EXCEPT !.err = ioEOF]
  ELSE IF Peek(p.rd, 3) = BOM THEN [p EXCEPT !.lm.HasBOM = TRUE, !.rd = Advance(@, 3)] ELSE p

\* parseBOM: Peek(3) fails when fewer than three bytes are left.
parseBOM(p) ==
  IF PeekFails(p.rd, 3) THEN [p EXCEPT !.err = ioEOF]
  ELSE IF Peek(p.rd, 3) = BOM THEN [p EXCEPT !.lm.HasBOM = TRUE] ELSE p

(***************************************************************************)
(* The decoder instance: the fields of both parser structs.  New(t) makes  *)
(* it with empty buffers (rfc5424.go:682-691, part_013:53-62).             *)
(***************************************************************************)
NewInstance ==
  [ arena |-> <<>>, offset |-> 0, len |-> 0,
    buf |-> <<>>, bufLen |-> 0, sdsHeap |-> <<>>, sdsLen |-> 0,
    appBuffer |-> <<>>, appLen |-> 0, pidBuffer |-> <<>>, pidLen |-> 0,
    reol |-> FALSE ]

Transient(type, input) ==
  [ rd |-> NewReader(input), lm |-> NewLogMsg(type), err |-> NoErr, want |-> 0,
    ret |-> FALSE ]

\* The end of ParseReader (rfc5424.go:726-745): the byte order mark, the
\* payload and the length check.
readMessage(p3) ==
  CHOOSE res \in { IF p4.err # NoErr THEN [p4 EXCEPT !.err = NoErr]
        ELSE
        LET n == p4.want - p4.len IN
        IF n < 0 THEN [p4 EXCEPT !.err = Panic]
        ELSE IF Buffered(p4.rd) < n
             \* io.ReadFull: io.EOF if it read nothing, io.ErrUnexpectedEOF otherwise.
             THEN [p4 EXCEPT !.rd = Advance(@, Buffered(p4.rd)),
                             !.err = IF Buffered(p4.rd) = 0 THEN ioEOF ELSE ErrPrematureEOF]
             ELSE LET md == Peek(p4.rd, n)
                      p5 == [p4 EXCEPT !.rd = Advance(@, n), !.lm.Message = md,
                                       !.lm.MsgLength = Len(md)]
                  IN IF Buffered(p5.rd) # 0 THEN [p5 EXCEPT !.err = ErrInvalidLength] ELSE p5
        : p4 \in {parseBOM(p3)} } : TRUE

\* parseHeader and parseStructuredData as ParseReader calls them: their error
\* goes through handleParseError.
headerAndSD(p1) ==
  CHOOSE res \in { IF p2.err # NoErr THEN [p2 EXCEPT !.err = handleParseError(@)]
        ELSE CHOOSE res \in { IF p3.err # NoErr THEN [p3 EXCEPT !.err = handleParseError(@)]
                              ELSE readMessage(p3)
                   : p3 \in {parseStructuredData(p2)} } : TRUE
        : p2 \in {parseHeader(p1)} } : TRUE

\* ParseReader of the versioned decoder on a fresh bufio.Reader over input.
\* ParseReader without the reset of r.offset and r.len.
ParseReader5424NoReset(inst, input) ==
  CHOOSE res \in { IF p1.err # NoErr THEN p1 ELSE headerAndSD(p1)
        : p1 \in {CHOOSE res \in { parseMessageLength(p0)
                        : p0 \in {inst @@ Transient("RFC5424", input)} } : TRUE} } : TRUE

ParseReader5424(inst, input) ==
  CHOOSE res \in { IF p1.err # NoErr THEN p1 ELSE headerAndSD(p1)
        : p1 \in {CHOOSE res \in { parseMessageLength(p0)
                        : p0 \in {[inst EXCEPT !.offset = 0, !.len = 0]
                                    @@ Transient("RFC5424", input)} } : TRUE} } : TRUE

(***************************************************************************)
(* The legacy timestamp, src/unnamed/part_012 (b is indexed from 0 there). *)
(***************************************************************************)
timestampLength == 15

parseMonth(a, b, c) ==
  LET is(x, y, z) == a = Ord[x] /\ b = Ord[y] /\ c = Ord[z]
  IN CASE is("J", "a", "n") -> 1  [] is("F", "e", "b") -> 2  [] is("M", "a", "r") -> 3
       [] is("A", "p", "r") -> 4  [] is("M", "a", "y") -> 5  [] is("J", "u", "n") -> 6
       [] is("J", "u", "l") -> 7  [] is("A", "u", "g") -> 8  [] is("S", "e", "p") -> 9
       [] is("O", "c", "t") -> 10 [] is("N", "o", "v") -> 11 [] is("D", "e", "c") -> 12
       [] OTHER -> -1

parseDoubleDigit(a, b) ==
  IF a < 48 \/ a > 54 \/ b < 48 \/ b > 57 THEN -1 ELSE (a - 48) * 10 + (b - 48)

\* A day that must be written with two digits.
parseDayTwoDigits(a, b) == parseDoubleDigit(a, b)

parseDay(a, b) ==
  IF a = space THEN (IF b < 48 \/ b > 57 THEN -1 ELSE b - 48)
  ELSE parseDoubleDigit(a, b)

\* The error ParseTimestamp returns for the bytes b, NoErr when it succeeds.
ParseTimestampErr(b) ==
  IF Len(b) # timestampLength THEN ErrBadLength
  ELSE IF b[4] # space \/ b[7] # space \/ b[10] # colon \/ b[13] # colon THEN ErrBadFormat
  ELSE IF parseMonth(b[1], b[2], b[3]) = -1 THEN ErrBadMonth
  ELSE IF parseDay(b[5], b[6]) = -1 THEN ErrBadNumber
  ELSE IF parseDay(b[5], b[6]) < 1 \/ parseDay(b[5], b[6]) > 31 THEN ErrOutOfRange
  ELSE IF parseDoubleDigit(b[8], b[9]) <= -1 \/ parseDoubleDigit(b[8], b[9]) > 23
       THEN ErrOutOfRange
  ELSE IF parseDoubleDigit(b[11], b[12]) <= -1 \/ parseDoubleDigit(b[11], b[12]) > 59
       THEN ErrOutOfRange
  ELSE IF parseDoubleDigit(b[14], b[15]) <= -1 \/ parseDoubleDigit(b[14], b[15]) > 60
       THEN ErrOutOfRange
  ELSE NoErr

\* Local time.  An instant is the number of seconds since the start of the
\* year 2020 in a zone without daylight saving time.
RECURSIVE DaysBeforeMonth(_, _)
DaysBeforeMonth(y, m) == IF m <= 1 THEN 0 ELSE DaysBeforeMonth(y, m - 1) + daysIn(m - 1, y)

RECURSIVE DaysBeforeYear(_)
DaysBeforeYear(y) ==
  IF y <= 2020 THEN 0 ELSE DaysBeforeYear(y - 1) + (IF IsLeap(y - 1) THEN 366 ELSE 365)

\* time.Date(y, mon, d, hh, mm, ss, 0, time.Local): a day beyond the end of
\* the month and the second 60 are carried over.
Date(y, mon, d, hh, mm, ss) ==
  ((DaysBeforeYear(y) + DaysBeforeMonth(y, mon) + d - 1) * 24 + hh) * 3600 + mm * 60 + ss

\* t.Year()
YearOf(t) ==
  CHOOSE y \in 2020..2030 : Date(y, 1, 1, 0, 0, 0) <= t /\ t < Date(y + 1, 1, 1, 0, 0, 0)

\* 31 * 24 * time.Hour, in seconds; time.Time{} is before every instant.
futureSkew == 2678400
ZeroTime   == -1

\* ParseTimestamp(b) called when time.Now() is now: the error and the time.
ParseTimestamp(b, now) ==
  IF ParseTimestampErr(b) # NoErr THEN [err |-> ParseTimestampErr(b), time |-> ZeroTime]
  ELSE LET mon  == parseMonth(b[1], b[2], b[3])
           day  == parseDay(b[5], b[6])
           hh   == parseDoubleDigit(b[8], b[9])
           mm   == parseDoubleDigit(b[11], b[12])
           ss   == parseDoubleDigit(b[14], b[15])
           year == YearOf(now)
           t    == Date(year, mon, day, hh, mm, ss)
       IN [err |-> NoErr,
           time |-> IF t > now + futureSkew THEN Date(year - 1, mon, day, hh, mm, ss) ELSE t]

(***************************************************************************)
(* The legacy decoder, src/unnamed/part_013.  buf, appBuffer and pidBuffer *)
(* are bytes.Buffers of the instance (backing array and length); none of   *)
(* them receives more than 64 bytes before it is reset.                    *)
(***************************************************************************)
maxTagLength == 32

BufBytes(p) == SubSeq(p.buf, 1, p.bufLen)
BufWrite(p, c) == [p EXCEPT !.buf = ArenaWrite(@, p.bufLen, c), !.bufLen = @ + 1]

\* One turn of the loop of readPriorityValue (part_013:275-284).
readPriorityTurn(p) ==
  IF AtEOF(p.rd) THEN [p EXCEPT !.err = ioEOF, !.ret = TRUE]
  ELSE IF NextByte(p.rd) = greaterThan THEN [p EXCEPT !.rd = ReadByte(@), !.ret = TRUE]
  ELSE BufWrite([p EXCEPT !.rd = ReadByte(@)], NextByte(p.rd))

RECURSIVE readPriorityDigits(_, _)
readPriorityDigits(p, n) ==
  IF p.ret \/ n = 0 THEN p
  ELSE IF n = 1 THEN readPriorityTurn(p)
  ELSE CHOOSE r \in {readPriorityDigits(q, m) : q \in {readPriorityDigits(p, n \div 2)},
                                                m \in {n - n \div 2}} : TRUE

\* Returns the parse state with the priority in want.
readPriorityValue(p0) ==
  LET p == [p0 EXCEPT !.bufLen = 0] IN
  IF AtEOF(p.rd) THEN [p EXCEPT !.err = ioEOF]
  ELSE IF NextByte(p.rd) # lowerThan
       THEN [p EXCEPT !.rd = ReadByte(@), !.err = ErrWrongFormat]
       ELSE CHOOSE r \in
              { IF q.err # NoErr THEN q
                ELSE LET n == ParseUintBytes(BufBytes(q))
                     IN IF n.err # NoErr THEN [q EXCEPT !.err = ErrInvalidPrio]
                        ELSE [q EXCEPT !.want = n.val]
                : q \in {[readPriorityDigits([p EXCEPT !.rd = ReadByte(@)], Buffered(p.rd))
                            EXCEPT !.ret = FALSE]} } : TRUE

parsePriority3164(p) ==
  CHOOSE r \in
    { IF q.err # NoErr THEN q
      ELSE IF q.want < 0 \/ q.want > maxPrio THEN [q EXCEPT !.err = ErrInvalidPrio]
      ELSE [q EXCEPT !.lm.Priority = q.want,
                     !.lm.Facility = FacilityFromPrio(q.want),
                     !.lm.Severity = SeverityFromPrio(q.want)]
      : q \in {readPriorityValue(p)} } : TRUE

\* One turn of the loop of parseTimestamp (part_013:150-156).
readTimestampTurn(p) ==
  IF p.bufLen >= timestampLength THEN [p EXCEPT !.ret = TRUE]
  ELSE IF AtEOF(p.rd) THEN [p EXCEPT !.err = ioEOF, !.ret = TRUE]
  ELSE BufWrite([p EXCEPT !.rd = ReadByte(@)], NextByte(p.rd))

RECURSIVE readTimestampBytes(_, _)
readTimestampBytes(p, n) ==
  IF p.ret \/ n = 0 THEN p
  ELSE IF n = 1 THEN readTimestampTurn(p)
  ELSE CHOOSE r \in {readTimestampBytes(q, m) : q \in {readTimestampBytes(p, n \div 2)},
                                                m \in {n - n \div 2}} : TRUE

parseTimestamp3164(p) ==
  CHOOSE x \in
    { IF q.err # NoErr THEN q
      ELSE IF AtEOF(q.rd) THEN [q EXCEPT !.err = "failed to discard space"]
      ELSE LET r == [q EXCEPT !.rd = ReadByte(@)]
               e == ParseTimestampErr(BufBytes(r))
           IN IF e # NoErr THEN [r EXCEPT !.err = e]
              ELSE [r EXCEPT !.lm.Timestamp = BufBytes(r)]
      : q \in {[readTimestampBytes([p EXCEPT !.bufLen = 0], timestampLength + 1)
                  EXCEPT !.ret = FALSE]} } : TRUE

\* reader.ReadSlice(' '); the host is a slice of the reader's buffer.
parseHostname3164(p0) ==
  CHOOSE res \in
    { IF t.err # NoErr THEN [p0 EXCEPT !.bufLen = 0, !.rd = t.rd, !.err = t.err]
      ELSE [p0 EXCEPT !.bufLen = 0, !.rd = t.rd, !.lm.Host = MkSlice("rd", t.lo, t.hi - 1)]
      : t \in {ReadSlice(p0.rd, space)} } : TRUE

\* readMessageContent: up to maxTagLength - startPosition further bytes.
\* One turn of the loop of readMessageContent.
readMessageTurn(p) ==
  IF AtEOF(p.rd) THEN [p EXCEPT !.ret = TRUE]
  ELSE LET b == NextByte(p.rd)
           q == [p EXCEPT !.rd = ReadByte(@), !.lm.Message = Append(@, b)]
       IN IF b = newline THEN [q EXCEPT !.reol = TRUE, !.ret = TRUE] ELSE q

RECURSIVE readMessageLoop(_, _)
readMessageLoop(p, n) ==
  IF p.ret \/ n = 0 THEN p
  ELSE IF n = 1 THEN readMessageTurn(p)
  ELSE CHOOSE r \in {readMessageLoop(q, m) : q \in {readMessageLoop(p, n \div 2)},
                                             m \in {n - n \div 2}} : TRUE

\* readMessageContent: the loop runs for x from startPosition to maxTagLength - 1.
readMessageContent(p, x) ==
  [readMessageLoop(p, IF x < maxTagLength THEN maxTagLength - x ELSE 0) EXCEPT !.ret = FALSE]

\* One turn of the loop of parseTag (part_013:190-223).  t holds the parse
\* state p and the locals hasColon, inPid, bytesRead.
tagTurn(t) ==
  IF AtEOF(t.p.rd) THEN [t EXCEPT !.p.err = ioEOF, !.ret = TRUE]
  ELSE
  LET b == NextByte(t.p.rd)
      q == [t.p EXCEPT !.rd = ReadByte(@)]
      w == [t EXCEPT !.p = BufWrite(q, b), !.bytesRead = @ + 1]
  IN
  IF b = newline THEN [t EXCEPT !.p = [q EXCEPT !.reol = TRUE], !.ret = TRUE]
  ELSE IF b = space THEN [w EXCEPT !.ret = TRUE]
  ELSE IF b = colon THEN [w EXCEPT !.hasColon = TRUE]
  ELSE IF b = leftBracket /\ ~w.inPid THEN [w EXCEPT !.inPid = TRUE]
  ELSE IF b = rightBracket /\ w.inPid THEN [w EXCEPT !.inPid = FALSE]
  ELSE IF ~w.inPid
       THEN [w EXCEPT !.p.appBuffer = ArenaWrite(@, w.p.appLen, b), !.p.appLen = @ + 1]
       ELSE [w EXCEPT !.p.pidBuffer = ArenaWrite(@, w.p.pidLen, b), !.p.pidLen = @ + 1]

RECURSIVE tagScan(_, _)
tagScan(t, n) ==
  IF t.ret \/ n = 0 THEN t
  ELSE IF n = 1 THEN tagTurn(t)
  ELSE CHOOSE r \in {tagScan(u, m) : u \in {tagScan(t, n \div 2)}, m \in {n - n \div 2}} : TRUE

\* parseTag with a scan that goes on behind the 32 bytes.
parseTagScansOn(p0) ==
  CHOOSE r \in
    { LET q == t.p
      IN IF q.err # NoErr THEN q
         ELSE IF t.hasColon /\ q.appLen > 0
              THEN readMessageContent(
                     [q EXCEPT !.lm.App = MkSlice("app", 0, q.appLen),
                               !.lm.PID = IF q.pidLen > 0 THEN MkSlice("pid", 0, q.pidLen)
                                          ELSE @], t.bytesRead)
              ELSE readMessageContent([q EXCEPT !.lm.Message = @ \o BufBytes(q)], q.bufLen)
      : t \in {tagScan([p |-> [p0 EXCEPT !.bufLen = 0, !.appLen = 0, !.pidLen = 0],
                        hasColon |-> FALSE, inPid |-> FALSE, bytesRead |-> 0,
                        ret |-> FALSE], 2 * maxTagLength)} } : TRUE

parseTag(p0) ==
  CHOOSE r \in
    { LET q == t.p
      IN IF q.err # NoErr THEN q
         ELSE IF t.hasColon /\ q.appLen > 0
              THEN readMessageContent(
                     [q EXCEPT !.lm.App = MkSlice("app", 0, q.appLen),
                               !.lm.PID = IF q.pidLen > 0 THEN MkSlice("pid", 0, q.pidLen)
                                          ELSE @], t.bytesRead)
              ELSE readMessageContent([q EXCEPT !.lm.Message = @ \o BufBytes(q)], q.bufLen)
      : t \in {tagScan([p |-> [p0 EXCEPT !.bufLen = 0, !.appLen = 0, !.pidLen = 0],
                        hasColon |-> FALSE, inPid |-> FALSE, bytesRead |-> 0,
                        ret |-> FALSE], maxTagLength)} } : TRUE

parseHeader3164(p) ==
  CHOOSE res \in
    {IF s3.err # NoErr THEN s3 ELSE parseTag(s3) : s3 \in
    {IF s2.err # NoErr THEN s2 ELSE parseHostname3164(s2) : s2 \in
    {IF s1.err # NoErr THEN s1 ELSE parseTimestamp3164(s1) : s1 \in
    {parsePriority3164(p)}}}} : TRUE

\* readRestOfLine with MsgLength taken before the rest of the line is written.
readRestOfLineStale(p1) ==
  CHOOSE res \in
    { IF t.err # NoErr /\ t.err # ioEOF THEN [p1 EXCEPT !.rd = t.rd,
                             !.err = "failed to read bytes: bufio: buffer full"]
      ELSE [p1 EXCEPT !.rd = t.rd,
                      !.lm.Message = @ \o Slice(t.rd.buf, t.lo, t.hi),
                      !.lm.MsgLength = Len(p1.lm.Message)]
      : t \in {ReadSlice(p1.rd, newline)} } : TRUE

\* The end of ParseReader (part_013:90-103): the rest of the line, through
\* the newline, is appended to Message.
readRestOfLine(p1) ==
  CHOOSE res \in
    { IF t.err # NoErr /\ t.err # ioEOF THEN [p1 EXCEPT !.rd = t.rd,
                             !.err = "failed to read bytes: bufio: buffer full"]
      ELSE [p1 EXCEPT !.rd = t.rd,
                      !.lm.Message = @ \o Slice(t.rd.buf, t.lo, t.hi),
                      !.lm.MsgLength = Len(p1.lm.Message) + (t.hi - t.lo)]
      : t \in {ReadSlice(p1.rd, newline)} } : TRUE

\* ParseReader of the legacy decoder on a source that delivers input at most
\* chunk bytes per Read; the source is no bufio.Reader and gets a new one.
ParseReader3164(inst, input, chunk) ==
  CHOOSE r \in
    { IF p1.err # NoErr
      THEN [p1 EXCEPT !.err = IF @ = ioEOF THEN ErrPrematureEOF ELSE @]
      ELSE IF p1.reol THEN [p1 EXCEPT !.lm.MsgLength = Len(p1.lm.Message)]
      ELSE readRestOfLine(p1)
      : p1 \in {parseHeader3164([inst EXCEPT !.reol = FALSE]
                     @@ [Transient("RFC3164", input) EXCEPT !.rd.chunk = chunk])}
    } : TRUE

(***************************************************************************)
(* Reading a returned record.  Memory is what the slices of a record       *)
(* alias: the instance's arrays and the buffer of the reader of the call   *)
(* that returned it.                                                       *)
(***************************************************************************)
Memory(inst, rd) ==
  [ arena |-> inst.arena, buf |-> inst.buf, app |-> inst.appBuffer,
    pid |-> inst.pidBuffer, sdsHeap |-> inst.sdsHeap, rd |-> rd.buf ]

Deref(s, mem) ==
  CASE s.mem = "nil"   -> <<>>
    [] s.mem = "arena" -> Slice(mem.arena, s.lo, s.hi)
    [] s.mem = "buf"   -> Slice(mem.buf, s.lo, s.hi)
    [] s.mem = "app"   -> Slice(mem.app, s.lo, s.hi)
    [] s.mem = "pid"   -> Slice(mem.pid, s.lo, s.hi)
    [] s.mem = "rd"    -> Slice(mem.rd, s.lo, s.hi)

DerefSD(sd, mem) ==
  IF sd.nil \/ sd.n = 0 THEN <<>>
  ELSE [k \in 1..sd.n |->
         LET e == mem.sdsHeap[sd.arr][k]
         IN [ ID    |-> Deref(e.ID, mem),
              Param |-> [j \in 1..Len(e.Param) |->
                           [Name |-> Deref(e.Param[j].Name, mem),
                            Value |-> Deref(e.Param[j].Value, mem)]] ]]

\* The bytes a caller reads in the slice-valued fields of lm.
Values(lm, mem) ==
  [ Host |-> Deref(lm.Host, mem), App |-> Deref(lm.App, mem),
    PID |-> Deref(lm.PID, mem), MsgID |-> Deref(lm.MsgID, mem),
    StructuredData |-> DerefSD(lm.StructuredData, mem) ]

(***************************************************************************)
(* Inputs.  Versioned frames are built from a header, structured data and  *)
(* a payload, with a declared length that is right or wrong, whole or cut  *)
(* short; legacy lines from a priority, a timestamp, a host and the rest.  *)
(***************************************************************************)
MaxPayload == 5
MaxCalls   == 2

PlainPayloads == {SubSeq(B("hello world"), 1, n) : n \in 0..MaxPayload}
BOMPayloads == {BOM, BOM \o B("h")}
Frame(declared, body) == Digits(declared) \o <<space>> \o body
Body(part) == part.h \o part.sd \o <<space>> \o part.m

\* The parts of the valid frames: every header, structured data and payload.
ValidParts ==
  [ h  : { B("<14>1 - - - - - "), B("<165>1 2003-10-11T22:14:15.003Z h app 12 ID47 ") },
    sd : { B("-"), B("[id@1 k=\"v\"]") },
    m  : PlainPayloads \cup BOMPayloads ]
ValidFrame(part) == Frame(Len(Body(part)), Body(part))
ValidFrames == {ValidFrame(part) : part \in ValidParts}

\* Valid frames that lost their last byte and kept their declared length.
TruncatedFrames == {SubSeq(f, 1, Len(f) - 1) : f \in ValidFrames}

\* Every proper prefix of one valid frame: the input ends in each state.
PrefixFrames ==
  LET frame == ValidFrame([h |-> B("<14>1 - h a p m "), sd |-> B("[id@1 k=\"v\"]"),
                           m |-> B("hello")])
  IN {SubSeq(frame, 1, n) : n \in 0..(Len(frame) - 1)}

\* Frames that differ in the priority field alone.
PrioTail == B("1 - - - - - - hello")
PrioFrame(prio) == Frame(Len(prio) + Len(PrioTail), prio \o PrioTail)
PriosInRange   == { B("<0>"), B("<7>"), B("<8>"), B("<191>") }
PriosOver191   == { B("<192>"), B("<200>"), B("<999>") }
PriosNotNumber == { B("<>"), B("<3x>"), B("<x>"), B("<-1>") }
PriosNoOpen    == { B("34>"), B("x34>"), B(">") }

\* Frames that differ in the length prefix alone: the prefix is empty or
\* holds a byte that is not a decimal digit.
BadLengths == { <<>>, B("x"), B("3x"), B("-5"), B("2x3") }
LengthFrame(prefix) == prefix \o <<space>> \o B("<14>") \o PrioTail

\* A frame with a right declared length, from the fields of its header, its
\* structured data and its payload.
FieldFrame(ver, ts, host, app, pid, msgid) ==
  ValidFrame([h |-> B("<14>") \o ver \o <<space>> \o ts \o <<space>> \o host \o <<space>>
                      \o app \o <<space>> \o pid \o <<space>> \o msgid \o <<space>>,
              sd |-> B("-"), m |-> B("hello")])

\* Frames that differ in the VERSION field alone.
BadVersions == { <<>>, B("0"), B("2"), B("x"), B("1x"), B("10"), B("11"), B("01"), B("001") }
VersionFrame(ver) == FieldFrame(ver, B("-"), B("-"), B("-"), B("-"), B("-"))

\* Frames that differ in the TIMESTAMP field alone.
GoodTimestamps ==
  { B("2003-10-11T22:14:15.003Z"), B("1985-04-12T23:20:50Z"),
    B("2003-08-24T05:14:15.000003-07:00") }
BadTimestamps ==
  { B("2025-10-21T15:30"), B("2003-10-11"), B("x"), B("--"), B("-x"),
    B("2003-10-11T22:14:15"), B("2003-13-11T22:14:15Z"), B("2003-02-30T22:14:15Z"),
    B("2003-10-11T22:14:15Zx"), B("22:14:15Z") }
TimestampFrame(ts) == FieldFrame(B("1"), ts, B("-"), B("-"), B("-"), B("-"))

\* Frames whose hostname, app-name, proc-id and msg-id are each the NILVALUE
\* or begin with a dash and go on.
DashFields == { B("-"), B("-x"), B("--") }
DashFrame(host, app, pid, msgid) == FieldFrame(B("1"), B("-"), host, app, pid, msgid)
\* Payloads that hold a part of the byte order mark, or its bytes in
\* another order.
NearBOMParts ==
  [h : {B("<14>1 - - - - - ")}, sd : {B("-")},
   m : { <<239, 187, 104>>, <<187, 191, 239>>, <<239, 187>>, <<104, 239, 187, 191>> }]

\* Hostnames longer than the 255 bytes of RFC 5424.  With the four digits of
\* the length prefix, <14> and the version, a hostname of arenaCap - 9 bytes
\* fills the arena; the fields that hold the NILVALUE give their byte back.
As(n) == [i \in 1..n |-> 65]
LongHosts == {As(300)} \cup {As(arenaCap - k) : k \in 9..11}

\* Frames that differ in the structured data alone.
SDFrame(sd) == ValidFrame([h |-> B("<14>1 - - - - - "), sd |-> sd, m |-> B("hello")])

\* Well-formed structured data without escapes, and the elements it holds.
WellFormedSDs ==
  { [text |-> B("[id]"),
     sd   |-> << [ID |-> B("id"), Param |-> <<>>] >>],
    [text |-> B("[id@1 k=\"\"]"),
     sd   |-> << [ID |-> B("id@1"), Param |-> << [Name |-> B("k"), Value |-> <<>>] >>] >>],
    [text |-> B("[id k=\"a=b [c\" j=\"d e\"]"),
     sd   |-> << [ID |-> B("id"), Param |-> << [Name |-> B("k"), Value |-> B("a=b [c")],
                                               [Name |-> B("j"), Value |-> B("d e")] >>] >>],
    [text |-> B("[foo@1234 Revision=\"1.2.3.4\"][bar@1234 Revision=\"1.2.3.4\"]"),
     sd   |-> << [ID |-> B("foo@1234"),
                  Param |-> << [Name |-> B("Revision"), Value |-> B("1.2.3.4")] >>],
                 [ID |-> B("bar@1234"),
                  Param |-> << [Name |-> B("Revision"), Value |-> B("1.2.3.4")] >>] >>],
    [text |-> B("[a][b x=\"1\" y=\"2\"][c z=\"3\"]"),
     sd   |-> << [ID |-> B("a"), Param |-> <<>>],
                 [ID |-> B("b"), Param |-> << [Name |-> B("x"), Value |-> B("1")],
                                              [Name |-> B("y"), Value |-> B("2")] >>],
                 [ID |-> B("c"), Param |-> << [Name |-> B("z"), Value |-> B("3")] >>] >>] }

\* Well-formed structured data whose values hold escapes: \" once, twice and
\* three times, an escaped backslash at the end of a value, an escaped
\* closing bracket.
EscapedSDs ==
  { [text |-> B("[id k=\"a\\\"b\"]"),
     sd   |-> << [ID |-> B("id"), Param |-> << [Name |-> B("k"), Value |-> B("a\\\"b")] >>] >>],
    [text |-> B("[id k=\"a\\\"b\\\"c\"]"),
     sd   |-> << [ID |-> B("id"),
                  Param |-> << [Name |-> B("k"), Value |-> B("a\\\"b\\\"c")] >>] >>],
    [text |-> B("[id k=\"\\\"a\\\"b\\\"\"][n j=\"v\"]"),
     sd   |-> << [ID |-> B("id"),
                  Param |-> << [Name |-> B("k"), Value |-> B("\\\"a\\\"b\\\"")] >>],
                 [ID |-> B("n"), Param |-> << [Name |-> B("j"), Value |-> B("v")] >>] >>],
    [text |-> B("[id k=\"a\\\\\"]"),
     sd   |-> << [ID |-> B("id"), Param |-> << [Name |-> B("k"), Value |-> B("a\\\\")] >>] >>],
    [text |-> B("[id k=\"a\\]b\"]"),
     sd   |-> << [ID |-> B("id"), Param |-> << [Name |-> B("k"), Value |-> B("a\\]b")] >>] >>] }

\* Structured data with a closing bracket inside a quoted value that no
\* backslash precedes immediately.
UnescapedBracketSDs ==
  { B("[id k=\"oops ] here\"]"), B("[id k=\"]\"]"), B("[id k=\"a]\"]"),
    B("[id k=\"a\\x]b\"]"), B("[x@999 q=\"\\\" \\\"]\"]") }

\* Structured data with an element whose SD-ID is empty.
EmptyIdSDs == { B("[]"), B("[ k=\"v\"]"), B("[a][]"), B("[a k=\"v\"][ j=\"w\"]") }

\* Structured data whose brackets outside quotes do not match: an element
\* that is never closed, a closing bracket that nothing opened.
UnbalancedSDs ==
  { B("[id k=\"v\""), B("[[a]"), B("[a][b"), B("[a]]"), B("[a]][b]"), B("[a]][[b]") }

\* Two valid frames one after the other in one source.
BackToBack ==
  [ f : {ValidFrame([h |-> B("<14>1 - - - - - "), sd |-> B("-"), m |-> B("hello")])},
    g : {ValidFrame([h |-> B("<34>1 - mymachine su 1 ID1 "), sd |-> B("[a@2 x=\"y\"]"),
                     m |-> B("world")]),
         ValidFrame([h |-> B("<14>1 - - - - - "), sd |-> B("-"), m |-> <<>>])} ]

\* Frames in which the input of a state and of every state after it is
\* invalid, with the number of that state in the order priority (1), version,
\* timestamp, hostname, app-name, proc-id, msg-id, structured data (8),
\* message (9), and the error of that state.
InvalidFrom ==
  { [state |-> 1, err |-> ErrInvalidPrio,         body |-> B("<999>2 x - - - - [ hello")],
    [state |-> 2, err |-> ErrInvalidProtoVersion, body |-> B("<14>2 x - - - - [ hello")],
    [state |-> 3, err |-> ErrInvalidTimestamp,    body |-> B("<14>1 x - - - - [ hello")],
    [state |-> 3, err |-> ErrInvalidTimestamp,    body |-> B("<14>1 x h a p m [ hello")],
    [state |-> 8, err |-> ErrWrongSDFormat,       body |-> B("<14>1 - h a p m [ hello")],
    [state |-> 8, err |-> ErrWrongSDFormat,       body |-> B("<14>1 - h a p m x hello")] }

Inputs5424 ==
  ValidFrames
    \cup {Frame(Len(c.body), c.body) : c \in InvalidFrom}
    \cup {b.f \o b.g : b \in BackToBack}
    \* valid frames whose declared length is one too small, one too large, or
    \* smaller than the header alone
    \cup UNION {{Frame(Len(Body(part)) - 1, Body(part)), Frame(Len(Body(part)) + 1, Body(part)),
                 Frame(1, Body(part))} : part \in ValidParts}
    \cup TruncatedFrames \cup PrefixFrames
    \cup {PrioFrame(x) : x \in PriosInRange \cup PriosOver191 \cup PriosNotNumber \cup PriosNoOpen}
    \cup {LengthFrame(x) : x \in BadLengths}
    \cup {VersionFrame(x) : x \in BadVersions \cup {B("1")}}
    \cup {TimestampFrame(x) : x \in GoodTimestamps \cup BadTimestamps \cup {B("-")}}
    \cup {DashFrame(f[1], f[2], f[3], f[4]) :
            f \in DashFields \X DashFields \X DashFields \X DashFields}
    \cup {DashFrame(h, B("-"), B("-"), B("-")) : h \in LongHosts}
    \cup {ValidFrame(part) : part \in NearBOMParts}
    \cup {SDFrame(c.text) : c \in WellFormedSDs \cup EscapedSDs}
    \cup {SDFrame(x) : x \in UnescapedBracketSDs \cup EmptyIdSDs \cup UnbalancedSDs}

\* One legacy line: priority, timestamp, hostname and the rest.
Line(prio, ts, host, rest) == prio \o ts \o <<space>> \o host \o <<space>> \o rest

\* Every prefix of the header of one valid line, up to the space that
\* ends the hostname (not included).
PrefixLines ==
  LET header == B("<13>Jan 12 03:04:05 myhost")
  IN {SubSeq(header, 1, n) : n \in 0..Len(header)}

PrioLine(prio) == Line(prio, B("Oct 20 12:34:56"), B("h"), B("su: x") \o <<newline>>)

\* A line with a valid header and the given text after the hostname.
RestLine(rest) == Line(B("<13>"), B("Oct 20 12:34:56"), B("myhost"), rest)
LongText == B("one two three four five six seven eight nine ten")

\* Text after the hostname with a newline in it and bytes behind the newline.
NewlineRests ==
  { B("su: x") \o <<newline>> \o B("NEXT"),
    B("-- MARK --") \o <<newline>> \o B("NEXT"),
    B("tag: ") \o LongText \o <<newline>> \o B("NEXT"),
    B("mypro") \o <<newline>> \o B("NEXT"),
    B("su:") \o <<newline>> \o B("NEXT"),
    B("su: x") \o <<newline, newline>> }

\* Text after the hostname that ends without a newline.
NoNewlineRests ==
  { <<>>, B("hello"), B("su:"), B("app:message"), B("app[1]:"), B("hello world"),
    B("su: x"), As(40), B("tag: ") \o LongText }

\* Tags with a colon and an app-name, of every length near the budget of 32
\* bytes: the app-name, the process id and the text after the tag's space.
TagCases ==
  [ app : {B("su"), As(24), As(25), As(26)}, pid : {<<>>, B("123")},
    msg : {B("x"), B("Test123") \o <<newline>>, LongText \o <<newline>>} ]
      \cup [ app : {As(29), As(30), As(31)}, pid : {<<>>}, msg : {B("x") \o <<newline>>} ]
TagRest(c) ==
  c.app \o (IF c.pid = <<>> THEN <<>> ELSE <<leftBracket>> \o c.pid \o <<rightBracket>>)
        \o <<colon, space>> \o c.msg

\* Text after the hostname without a tag: no colon, or no app-name.
NoTagRests ==
  { B("This is a test "), B("-- MARK --") \o <<newline>>, B("mypro") \o <<newline>>,
    B(": x") \o <<newline>>, B("[12]: x") \o <<newline>>, B("hello world") \o <<newline>>,
    As(40) \o <<newline>>, B("no tag in ") \o LongText }

\* Tags with bytes between the colon and the space; app and pid are what
\* precedes the colon.
ColonCases ==
  { [text |-> B("su: x") \o <<newline>>,      app |-> B("su"),  pid |-> <<>>],
    [text |-> B("app[1]: x") \o <<newline>>,  app |-> B("app"), pid |-> B("1")],
    [text |-> B("a:b c") \o <<newline>>,      app |-> B("a"),   pid |-> <<>>],
    [text |-> B("a:[9] c") \o <<newline>>,    app |-> B("a"),   pid |-> <<>>],
    [text |-> B("app[1]:x y") \o <<newline>>, app |-> B("app"), pid |-> B("1")] }

\* Lines whose byte after the timestamp is not a space.
BadSeparators == { B("X"), B(":"), B("-"), B("0") }
SeparatorLine(sep) ==
  B("<13>Oct 20 12:34:56") \o sep \o B("myhost su: x") \o <<newline>>

\* Text after the hostname whose first maxTagLength bytes hold no space, no
\* newline and no colon, followed by text with a colon.
LateColonRests ==
  [ head : {As(maxTagLength), As(20) \o B("[123]") \o As(maxTagLength - 25),
            B("[") \o As(maxTagLength - 1)},
    tail : {B(": x") \o <<newline>>, B("A: x") \o <<newline>>, B("[1]: x y") \o <<newline>>,
            B(":"), B(": x") \o <<newline>> \o B("NEXT")} ]

Inputs3164 ==
  {Line(B("<13>"), ts, B("myhost"), rest) :
     ts \in { B("Oct 20 12:34:56"), B("Jan  2 03:04:05") },
     rest \in { B("app[123]: hello world"), B("su: Test123"), B("This is a test "),
                B("-- MARK --") \o <<newline>>, B("mypro") \o <<newline>>,
                B("tag: message") \o <<newline>> }}
    \cup PrefixLines
    \cup {Line(B("<13>"), ts, B("h"), B("su: x") \o <<newline>>) :
            ts \in { B("Foo 12 03:04:05"), B("Jan 00 03:04:05"), B("Jan 12 24:00:00"),
                     B("Jan 1x 03:04:05"), B("Jan-12 03:04:05") }}
    \cup {PrioLine(x) : x \in PriosInRange \cup PriosOver191 \cup PriosNotNumber \cup PriosNoOpen}
    \cup {RestLine(x) : x \in NewlineRests \cup NoNewlineRests \cup NoTagRests}
    \cup {RestLine(TagRest(c)) : c \in TagCases}
    \cup {RestLine(c.text) : c \in ColonCases}
    \cup {SeparatorLine(x) : x \in BadSeparators}
    \cup {RestLine(c.head \o c.tail) : c \in LateColonRests}

\* The most bytes one Read of a split source delivers.

\* Inputs of ParseTimestamp: one field varied at a time, good and bad values,
\* every month, wrong lengths and wrong separators.
Stamp(mon, dd, hh, mm, ss) ==
  B(mon) \o <<space>> \o B(dd) \o <<space>> \o B(hh) \o <<colon>> \o B(mm) \o <<colon>> \o B(ss)
MonthNames ==
  {"Jan", "Feb", "Mar", "Apr", "May", "Jun", "Jul", "Aug", "Sep", "Oct", "Nov", "Dec"}
Stamps ==
  {Stamp(m, "20", "12", "34", "56") :
       m \in MonthNames \cup {"Foo", "Bad", "jan", "JAN", "Ju ", "Mai", "Okt", "Dez"}}
    \cup {Stamp("Oct", d, "12", "34", "56") :
            d \in {" 1", " 9", "01", "09", "10", "28", "29", "30", "31", " 0", "00", "32",
                   "39", "69", "70", "99", "1 ", " x", "x1", "-1"}}
    \cup {Stamp("Oct", "20", h, "34", "56") :
            h \in {"00", "09", "23", "24", "25", "69", "70", " 3", "7x", "-1"}}
    \cup {Stamp("Oct", "20", "12", m, "56") :
            m \in {"00", "59", "60", "61", "99", "6x", " 5"}}
    \cup {Stamp("Oct", "20", "12", "34", x) :
            x \in {"00", "59", "60", "61", "69", "70", "99", " 5"}}
    \cup {Stamp(m, d, "23", "59", x) : m \in MonthNames, d \in {" 1", "29", "31"},
                                       x \in {"59", "60"}}
    \cup { <<>>, B("Oct 20 12:34:5"), B("Oct 20 12:34:567"), B("Oct 20 12:34"),
           B("Jan 00 03.04:05"), B("Jan-12 03:04:05"), B("Jan 12-03:04:05"),
           B("Jan 12 03:04.05"), B("Oct  20 2:34:56") }

\* What time.Now() returns at the call.
FollowUps3164 ==
  { Line(B("<34>"), B("Oct 20 12:34:56"), B("gw"), B("cron[7]: done") \o <<newline>>),
    Line(B("<13>"), B("Jan  2 03:04:05"), B("h"), B("-- MARK --") \o <<newline>>),
    B("<13>Jan 12 03:04") }

(***************************************************************************)
(* The state: one decoder instance made by New(kind), the calls made on    *)
(* it, the result of the last call and the result of the first call as the *)
(* caller received it (vals: the bytes its slices held at return time).    *)
(* With kind "package" the caller makes one call of a function of the     *)
(* packages instead, and out is its result.                                *)
(***************************************************************************)
VARIABLES kind, dec, calls, out, first,
          \* src/parsesyslog.go: the registry map, the holder of its lock (0 when
          \* free) and, per goroutine, the call it is in and where it stands
          types, lock, pc,
          \* the factory handed to the first Register call per type, in the
          \* order in which the calls took the lock
          firstCall

vars == <<kind, dec, calls, out, first, types, lock, pc, firstCall>>

NoResult ==
  [ input |-> <<>>, lm |-> NewLogMsg(""), err |-> NoErr, rd |-> NewReader(<<>>),
    want |-> 0, len |-> 0, vals |-> Values(NewLogMsg(""), Memory(NewInstance, NewReader(<<>>))) ]

\* Two goroutines call into the registry, each MaxRegistryCalls times.
Goroutines == {1, 2}
MaxRegistryCalls == 2
ParserTypes == {"example", "non-existing"}
ErrParserTypeUnknown == "unknown parser type"

\* A goroutine outside Register and New, after n calls.
Idle(n) == [op |-> "idle", at |-> "idle", t |-> "", f |-> "", res |-> "", quiet |-> TRUE,
            expect |-> "", n |-> n]

Init ==
  /\ kind \in {"rfc5424", "rfc3164", "package", "registry"}
  /\ dec = NewInstance
  /\ calls = 0
  /\ out = NoResult
  /\ first = NoResult
  /\ types = [t \in ParserTypes |-> "nil"]
  /\ lock = 0
  /\ pc = [g \in Goroutines |-> Idle(0)]
  /\ firstCall = [t \in ParserTypes |-> "nil"]

\* The instance fields of a parse state.
InstanceOf(p) == [f \in DOMAIN NewInstance |-> p[f]]

Return(p, input) ==
  [ input |-> input, lm |-> p.lm, err |-> p.err, rd |-> p.rd, want |-> p.want,
    len |-> p.len, vals |-> Values(p.lm, Memory(InstanceOf(p), p.rd)) ]

Called(p, input) ==
  /\ dec' = InstanceOf(p)
  /\ out' = Return(p, input)
  /\ first' = IF calls = 0 THEN Return(p, input) ELSE first
  /\ calls' = calls + 1
  /\ UNCHANGED <<kind, types, lock, pc, firstCall>>

\* parser.ParseString(input) on the versioned decoder.
ParseString5424 ==
  /\ kind = "rfc5424"
  /\ calls < MaxCalls
  /\ \E input \in (IF calls = 0 THEN Inputs5424
                    \* what the caller decodes next on the same instance
                    ELSE { ValidFrame([h |-> B("<14>1 - - - - - "), sd |-> B("-"),
                                       m |-> B("hello")]),
                           ValidFrame([h |-> B("<34>1 - mymachine su 1 ID1 "),
                                       sd |-> B("[a@2 x=\"y\"][b@2 z=\"w\"]"),
                                       m |-> B("world")]),
                           B("12 <34>1 - x") }),
        inst \in {dec} :
       \E p \in {ParseReader5424(inst, input)} : Called(p, input)

\* parser.ParseString(input) on the legacy decoder: a strings.Reader gives
\* the bufio.Reader as many bytes as its buffer takes.
\* ParseReader called again with the *bufio.Reader of the call before, which
\* still holds bytes: the reader goes on behind the bytes that call consumed
\* (rfc5424.go:708-711 takes the caller's reader as it is).
ParseReaderAgain5424 ==
  /\ kind = "rfc5424"
  /\ calls > 0 /\ calls < MaxCalls
  /\ Buffered(out.rd) > 0
  /\ \E input \in {SubSeq(out.rd.data, out.rd.pos + 1, Len(out.rd.data))}, inst \in {dec} :
       \E p \in {ParseReader5424(inst, input)} : Called(p, input)

ParseString3164 ==
  /\ kind = "rfc3164"
  /\ calls < MaxCalls
  /\ \E input \in (IF calls = 0 THEN Inputs3164 ELSE FollowUps3164), inst \in {dec} :
       \E p \in {ParseReader3164(inst, input, bufioSize)} : Called(p, input)

\* parser.ParseReader(reader) on the legacy decoder, with a reader (a
\* connection, a pipe) that delivers the input a few bytes per Read.
ParseReaderSplit3164 ==
  /\ kind = "rfc3164"
  /\ calls < MaxCalls
  /\ \E input \in (IF calls = 0 THEN Inputs3164 ELSE FollowUps3164), inst \in {dec},
        chunk \in {1, 7} :
       \E p \in {ParseReader3164(inst, input, chunk)} : Called(p, input)

\* rfc3164.ParseTimestamp(b), called by the caller at the time now.
CallParseTimestamp ==
  /\ kind = "package"
  /\ out = NoResult
  /\ \E b \in Stamps, now \in { Date(2025, 1, 10, 0, 0, 0), Date(2025, 11, 6, 12, 0, 0),
                                Date(2024, 12, 15, 8, 30, 0), Date(2025, 12, 31, 23, 59, 59),
                                Date(2024, 2, 1, 0, 0, 0) } :
       \E res \in {ParseTimestamp(b, now)} :
         out' = [fn |-> "ParseTimestamp", now |-> now, time |-> res.time]
                  @@ [NoResult EXCEPT !.input = b, !.err = res.err]
  /\ UNCHANGED <<kind, dec, calls, first, types, lock, pc, firstCall>>

\* FacilityFromPrio(p) and SeverityFromPrio(p) for a priority p.
CallFromPrio ==
  /\ kind = "package"
  /\ out = NoResult
  /\ \E p \in 0..maxPrio :
       out' = [fn |-> "FromPrio", prio |-> p, facility |-> FacilityFromPrio(p),
               severity |-> SeverityFromPrio(p)] @@ NoResult
  /\ UNCHANGED <<kind, dec, calls, first, types, lock, pc, firstCall>>

\* What a caller of ReadBytesUntilSpaceOrNilValue has in the reader: the texts
\* of Test_readBytesUntilSpaceOrNilValue, fields that are the NILVALUE, and
\* fields with a dash at their start, inside and at their end.
FieldTexts ==
  { B("123-test - blubb"), B("2016-02-28T09:57:10.804642398-05:00 - - "), B(" - foo bar"),
    <<>>, B("- "), B("- - x"), B("-"), B("-x "), B("-- "), B("a- "), B("a-b "), B("ab -"),
    B("abc") }

\* ReadBytesUntilSpaceOrNilValue(reader, &buffer) on a new reader over msg and
\* a buffer that holds what an earlier call left in it.
CallReadBytesUntilSpaceOrNilValue ==
  /\ kind = "package"
  /\ out = NoResult
  /\ \E msg \in FieldTexts, old \in {<<>>, B("old")} :
       \E res \in {ReadBytesUntilSpaceOrNilValue(NewReader(msg), old)} :
         out' = [fn |-> "ReadBytesUntilSpaceOrNilValue", old |-> old, buffer |-> res.buffer,
                 bytesRead |-> res.bytesRead]
                  @@ [NoResult EXCEPT !.input = msg, !.err = res.err, !.rd = res.rd]
  /\ UNCHANGED <<kind, dec, calls, first, types, lock, pc, firstCall>>

\* What a caller of ParseUintBytes passes: digits, no bytes, and texts with a
\* byte that is no digit at the start, inside and at the end.
NumberTexts ==
  {Digits(n) : n \in 0..12} \cup
  { B("1234567890"), B("0042"), B("2048"), <<>>, B("a"), B("-1"), B("+1"), B("1a"), B("a1"),
    B("1 2"), B(" 12"), B("12 "), B("1.5"), B("0x1F"), <<47>>, <<58>>, <<49, 47>>, <<58, 49>> }

\* ParseUintBytes(b)
CallParseUintBytes ==
  /\ kind = "package"
  /\ out = NoResult
  /\ \E b \in NumberTexts :
       \E res \in {ParseUintBytes(b)} :
         out' = [fn |-> "ParseUintBytes", val |-> res.val]
                  @@ [NoResult EXCEPT !.input = b, !.err = res.err]
  /\ UNCHANGED <<kind, dec, calls, first, types, lock, pc, firstCall>>

\* The runtime ends the program when it finds a map read next to a map write.
Crashed == \E g \in Goroutines : pc[g].res = "fatal error: concurrent map read and map write"

\* Register without the test of the lookup: the assignment is always made.
RegisterOverwrites(g) ==
  /\ kind = "registry" /\ ~Crashed
  /\ \/ /\ pc[g].op = "idle" /\ pc[g].n < MaxRegistryCalls
        /\ \E t \in ParserTypes, fn \in {"f1", "f2"} :
             pc' = [pc EXCEPT ![g] = [@ EXCEPT !.op = "Register", !.at = "Lock",
                                              !.t = t, !.f = fn]]
        /\ UNCHANGED <<types, lock, firstCall>>
     \/ /\ pc[g].op = "Register" /\ pc[g].at = "Lock" /\ lock = 0
        /\ lock' = g
        /\ firstCall' = IF firstCall[pc[g].t] = "nil"
                        THEN [firstCall EXCEPT ![pc[g].t] = pc[g].f] ELSE firstCall
        /\ pc' = [pc EXCEPT ![g].at = "lookup"]
        /\ UNCHANGED types
     \/ /\ pc[g].op = "Register" /\ pc[g].at = "lookup"
        /\ pc' = [pc EXCEPT ![g].at = "assign"]
        /\ UNCHANGED <<types, lock, firstCall>>
     \/ /\ pc[g].op = "Register" /\ pc[g].at = "assign"
        /\ pc' = [pc EXCEPT ![g].at = "assigning"]
        /\ UNCHANGED <<types, lock, firstCall>>
     \/ /\ pc[g].op = "Register" /\ pc[g].at = "assigning"
        /\ types' = [types EXCEPT ![pc[g].t] = pc[g].f]
        /\ pc' = [pc EXCEPT ![g].at = "Unlock"]
        /\ UNCHANGED <<lock, firstCall>>
     \/ /\ pc[g].op = "Register" /\ pc[g].at = "Unlock"
        /\ lock' = 0
        /\ pc' = [pc EXCEPT ![g] = Idle(@.n + 1)]
        /\ UNCHANGED <<types, firstCall>>
  /\ UNCHANGED <<kind, dec, calls, out, first>>

\* Register(t, fn) in goroutine g, one disjunct per step: the call, lock.Lock(),
\* the lookup types[t], the assignment types[t] = fn (which takes time: the map
\* is being written between its two steps), and the deferred lock.Unlock().
Register(g) ==
  /\ kind = "registry" /\ ~Crashed
  /\ \/ /\ pc[g].op = "idle" /\ pc[g].n < MaxRegistryCalls
        /\ \E t \in ParserTypes, fn \in {"f1", "f2"} :
             pc' = [pc EXCEPT ![g] = [@ EXCEPT !.op = "Register", !.at = "Lock",
                                              !.t = t, !.f = fn]]
        /\ UNCHANGED <<types, lock, firstCall>>
     \/ /\ pc[g].op = "Register" /\ pc[g].at = "Lock" /\ lock = 0
        /\ lock' = g
        /\ firstCall' = IF firstCall[pc[g].t] = "nil"
                        THEN [firstCall EXCEPT ![pc[g].t] = pc[g].f] ELSE firstCall
        /\ pc' = [pc EXCEPT ![g].at = "lookup"]
        /\ UNCHANGED types
     \/ /\ pc[g].op = "Register" /\ pc[g].at = "lookup"
        /\ pc' = [pc EXCEPT ![g].at = IF types[pc[g].t] # "nil" THEN "Unlock" ELSE "assign"]
        /\ UNCHANGED <<types, lock, firstCall>>
     \/ /\ pc[g].op = "Register" /\ pc[g].at = "assign"
        /\ pc' = [pc EXCEPT ![g].at = "assigning"]
        /\ UNCHANGED <<types, lock, firstCall>>
     \/ /\ pc[g].op = "Register" /\ pc[g].at = "assigning"
        /\ types' = [types EXCEPT ![pc[g].t] = pc[g].f]
        /\ pc' = [pc EXCEPT ![g].at = "Unlock"]
        /\ UNCHANGED <<lock, firstCall>>
     \/ /\ pc[g].op = "Register" /\ pc[g].at = "Unlock"
        /\ lock' = 0
        /\ pc' = [pc EXCEPT ![g] = Idle(@.n + 1)]
        /\ UNCHANGED <<types, firstCall>>
  /\ UNCHANGED <<kind, dec, calls, out, first>>

\* New(t) in goroutine g: the call, the lookup types[t] (made without the lock)
\* and the return of newParser() or of ErrParserTypeUnknown.  A lookup made
\* while another goroutine is writing the map is a data race: it finds the map
\* as it was, or as it will be, or the runtime ends the program.
New(g) ==
  /\ kind = "registry" /\ ~Crashed
  /\ \/ /\ pc[g].op = "idle" /\ pc[g].n < MaxRegistryCalls
        /\ \E t \in ParserTypes :
             pc' = [pc EXCEPT ![g] = [@ EXCEPT !.op = "New", !.at = "lookup", !.t = t]]
     \/ /\ pc[g].op = "New" /\ pc[g].at = "lookup"
        /\ \E found \in {types[pc[g].t]}
                         \cup {pc[h].f : h \in {h \in Goroutines :
                                    pc[h].at = "assigning" /\ pc[h].t = pc[g].t}}
                         \cup {"fatal error: concurrent map read and map write" :
                                 h \in {h \in Goroutines : pc[h].at = "assigning"}} :
             pc' = [pc EXCEPT ![g] =
                      [@ EXCEPT !.at = "return",
                                !.res = IF found = "nil" THEN ErrParserTypeUnknown ELSE found,
                                !.quiet = (lock = 0),
                                !.expect = firstCall[pc[g].t]]]
     \/ /\ pc[g].op = "New" /\ pc[g].at = "return"
        /\ pc' = [pc EXCEPT ![g] = Idle(@.n + 1)]
  /\ UNCHANGED <<kind, dec, calls, out, first, types, lock, firstCall>>

Next ==
  ParseString5424 \/ ParseReaderAgain5424 \/ ParseString3164 \/ ParseReaderSplit3164
    \/ CallParseTimestamp
    \/ CallFromPrio \/ CallReadBytesUntilSpaceOrNilValue \/ CallParseUintBytes
    \/ (\E g \in Goroutines : Register(g))
    \/ (\E g \in Goroutines : New(g))

Spec == Init /\ [][Next]_vars

(***************************************************************************)
(* Properties                                                              *)
(***************************************************************************)
Returned == calls > 0

\* The index of the space that ends the length prefix of a versioned frame.
PrefixEnd(input) ==
  CHOOSE k \in 1..Len(input) :
    input[k] = space /\ \A j \in 1..(k - 1) : input[j] # space

HasPrefix(input) == \E k \in 1..Len(input) : input[k] = space

\* C1: no call of ParseString of either decoder panics, whatever the input
\* (in particular wantLength - r.len is never negative at the allocation).
C1_NeverPanics == Returned => out.err # Panic

\* C2: when the versioned decoder succeeds, the bytes it consumed after the
\* length prefix and its space equal the declared length; and a frame whose
\* declared length differs from its content length is reported as an error.
C2_ConsumedEqualsDeclared ==
  (Returned /\ kind = "rfc5424" /\ HasPrefix(out.input)) =>
    /\ out.err = NoErr => out.rd.pos - PrefixEnd(out.input) = out.want
    /\ (/\ ParseUintBytes(Slice(out.input, 0, PrefixEnd(out.input) - 1)).err = NoErr
        /\ out.want # Len(out.input) - PrefixEnd(out.input))
         => out.err \notin {NoErr, Panic}

\* C3: a valid versioned frame that lost its last byte and kept its declared
\* length is answered with ErrPrematureEOF or ErrInvalidLength, never success.
C3_TruncationIsAnError ==
  (Returned /\ kind = "rfc5424" /\ out.input \in TruncatedFrames) =>
    out.err \in {ErrPrematureEOF, ErrInvalidLength}

\* C4: for every valid versioned frame (payloads of 0, 1, 2 and more bytes,
\* no byte order mark) the call succeeds and Message is exactly the payload.
C4_MessageIsPayload ==
  (Returned /\ kind = "rfc5424") =>
    \A part \in ValidParts :
      (out.input = ValidFrame(part) /\ part.m \in PlainPayloads) =>
        (out.err = NoErr /\ out.lm.Message = part.m)

\* C5: the Host, App, PID, MsgID and StructuredData of the record returned by
\* the first call still read the bytes they read at return time, after every
\* later call on the same instance.
C5_ReturnedSlicesKeepTheirBytes ==
  (Returned /\ first.err = NoErr) =>
    Values(first.lm, Memory(dec, first.rd)) = first.vals

\* C6: every non-nil error a call returns is, or wraps, one of the eight
\* enumerated kinds.
C6_ErrorsAreEnumerated ==
  (Returned /\ out.err \notin {NoErr, Panic}) => out.err \in EnumeratedErrors

\* C7: input that ends before the current state has completed (every proper
\* prefix of a valid versioned frame; every prefix of a legacy line that ends
\* before the space that ends the hostname) is answered with ErrPrematureEOF.
C7_ShortInputIsPrematureEOF ==
  (Returned /\ out.input \in (IF kind = "rfc5424" THEN PrefixFrames ELSE PrefixLines)) =>
    out.err = ErrPrematureEOF

\* The inputs of either decoder whose priority field is one of prios.
WithPrio(prios) ==
  IF kind = "rfc5424" THEN {PrioFrame(x) : x \in prios} ELSE {PrioLine(x) : x \in prios}

\* C8: both decoders reject a well-delimited priority above 191 with
\* ErrInvalidPrio before Facility and Severity are derived, and every record
\* decoded with success has Priority in 0..191, Facility in 0..23, Severity
\* in 0..7.
C8_PriorityInRange ==
  Returned =>
    /\ out.err = NoErr =>
         /\ out.lm.Priority \in 0..maxPrio
         /\ out.lm.Facility \in 0..23
         /\ out.lm.Severity \in 0..7
    /\ out.input \in WithPrio(PriosOver191) =>
         /\ out.err = ErrInvalidPrio
         /\ out.lm.Priority = 0 /\ out.lm.Facility = 0 /\ out.lm.Severity = 0

\* C8 happens: a priority above 191 was rejected by the last call.
C8_Witness ==
  Returned /\ out.input \in WithPrio(PriosOver191) /\ out.err = ErrInvalidPrio

\* C9: both decoders answer a priority field delimited by < and > whose
\* content is empty or holds a non-digit byte with ErrInvalidPrio.
C9_NonNumericPrioIsInvalidPrio ==
  (Returned /\ out.input \in WithPrio(PriosNotNumber)) => out.err = ErrInvalidPrio

\* C10: both decoders answer a priority field that does not begin with <
\* with ErrWrongFormat.
C10_MissingOpenIsWrongFormat ==
  (Returned /\ out.input \in WithPrio(PriosNoOpen)) => out.err = ErrWrongFormat

\* C11: the versioned decoder answers a frame whose length prefix is empty
\* or holds a byte that is not a decimal digit with ErrInvalidLength.
C11_BadLengthIsInvalidLength ==
  (Returned /\ kind = "rfc5424" /\ out.input \in {LengthFrame(x) : x \in BadLengths}) =>
    out.err = ErrInvalidLength

\* C12: the versioned decoder accepts a frame only if the bytes of its
\* VERSION field are exactly "1", answers every other VERSION with
\* ErrInvalidProtoVersion, and every record decoded with success has
\* ProtoVersion 1.
C12_VersionIsExactlyOne ==
  (Returned /\ kind = "rfc5424") =>
    /\ out.err = NoErr => out.lm.ProtoVersion = 1
    /\ out.input \in {VersionFrame(x) : x \in BadVersions} => out.err = ErrInvalidProtoVersion
    /\ out.input = VersionFrame(B("1")) => out.err = NoErr

FieldIs(slice, bytes, f) == IF f = B("-") THEN slice = NilSlice ELSE (slice # NilSlice /\ bytes = f)

\* C14: hostname, app-name, proc-id and msg-id of the versioned decoder are
\* absent when the field is exactly "-" and hold the bytes of the field when
\* it begins with "-" and goes on.
C14_DashAloneIsNil ==
  (Returned /\ kind = "rfc5424") =>
    \A f \in DashFields \X DashFields \X DashFields \X DashFields :
      out.input = DashFrame(f[1], f[2], f[3], f[4]) =>
        /\ out.err = NoErr
        /\ FieldIs(out.lm.Host, out.vals.Host, f[1])
        /\ FieldIs(out.lm.App, out.vals.App, f[2])
        /\ FieldIs(out.lm.PID, out.vals.PID, f[3])
        /\ FieldIs(out.lm.MsgID, out.vals.MsgID, f[4])

\* C14 happens: a record with an absent hostname and the msg-id "-x".
C14_Witness ==
  /\ Returned /\ kind = "rfc5424" /\ out.err = NoErr
  /\ out.input = DashFrame(B("-"), B("--"), B("-"), B("-x"))
  /\ out.lm.Host = NilSlice /\ out.vals.MsgID = B("-x")

\* C15: inside a quoted parameter value a quote ends the value unless an odd
\* number of backslashes precedes it: structured data whose values hold \"
\* (once, twice, three times), end in an escaped backslash or hold an escaped
\* closing bracket is accepted, and each value is returned with its escapes.
C15_EscapesInValues ==
  (Returned /\ kind = "rfc5424") =>
    \A c \in EscapedSDs :
      out.input = SDFrame(c.text) => (out.err = NoErr /\ out.vals.StructuredData = c.sd)

\* C16: structured data with a closing bracket inside a quoted value that no
\* backslash precedes immediately is answered with ErrWrongSDFormat.
C16_UnescapedBracketIsRejected ==
  (Returned /\ kind = "rfc5424" /\ out.input \in {SDFrame(x) : x \in UnescapedBracketSDs}) =>
    out.err = ErrWrongSDFormat

\* C17: every element of a record decoded with success has a non-empty ID,
\* and structured data with an empty SD-ID is answered with ErrWrongSDFormat.
C17_ElementIdIsNotEmpty ==
  (Returned /\ kind = "rfc5424") =>
    /\ out.err = NoErr =>
         \A k \in 1..Len(out.vals.StructuredData) : Len(out.vals.StructuredData[k].ID) > 0
    /\ out.input \in {SDFrame(x) : x \in EmptyIdSDs} => out.err = ErrWrongSDFormat

\* C18: structured data whose brackets outside quotes do not match (an element
\* never closed, a closing bracket that nothing opened) is answered with
\* ErrWrongSDFormat.
C18_UnbalancedIsRejected ==
  (Returned /\ kind = "rfc5424" /\ out.input \in {SDFrame(x) : x \in UnbalancedSDs}) =>
    out.err = ErrWrongSDFormat

\* C19: structured data made of n >= 1 well-formed elements (with or without
\* escapes in the values) is decoded to exactly n elements in wire order,
\* each with its SD-ID and its parameters, name and raw value, in wire order.
C19_ElementsInWireOrder ==
  (Returned /\ kind = "rfc5424") =>
    \A c \in WellFormedSDs \cup EscapedSDs :
      out.input = SDFrame(c.text) =>
        /\ out.err = NoErr
        /\ Len(out.vals.StructuredData) = Len(c.sd)
        /\ \A k \in 1..Len(c.sd) : out.vals.StructuredData[k] = c.sd[k]

\* C20: when the payload of a valid versioned frame begins with the three
\* bytes of the UTF-8 byte order mark, HasBOM is true, the three bytes are
\* the first bytes of Message, MsgLength counts them and the bytes consumed
\* after the length prefix equal the declared length; otherwise (the payload
\* begins with other bytes, or the input holds no byte of the mark at all)
\* HasBOM is false.
C20_BOMStaysInMessage ==
  (Returned /\ kind = "rfc5424") =>
    /\ \A part \in ValidParts \cup NearBOMParts :
         out.input = ValidFrame(part) =>
           IF part.m \in BOMPayloads
           THEN /\ out.err = NoErr
                /\ out.lm.HasBOM
                /\ out.lm.Message = part.m
                /\ out.lm.MsgLength = Len(part.m)
                /\ out.rd.pos - PrefixEnd(out.input) = out.want
           ELSE ~out.lm.HasBOM
    /\ (\A i \in 1..Len(out.input) : out.input[i] \notin {239, 187, 191}) => ~out.lm.HasBOM

\* C20 happens: a frame whose payload is the byte order mark and one more
\* byte was decoded with the mark in Message.
C20_Witness ==
  /\ Returned /\ kind = "rfc5424" /\ out.err = NoErr /\ out.lm.HasBOM
  /\ out.lm.MsgLength = 4 /\ SubSeq(out.lm.Message, 1, 3) = BOM

\* The index of the first byte c of b at or after from.
FirstIndexFrom(b, from, c) ==
  CHOOSE k \in from..Len(b) : b[k] = c /\ \A j \in from..(k - 1) : b[j] # c

\* The number of bytes of RestLine(rest) that precede rest.
RestStart == Len(RestLine(<<>>))

\* C21: once the legacy decoder has read the first newline after the hostname
\* it consumes no further byte and appends nothing more to Message: on a line
\* with bytes behind the newline, the reader stands just behind the newline
\* and Message holds no more bytes than the text up to the newline.
C21_NothingReadPastNewline ==
  (Returned /\ kind = "rfc3164") =>
    \A x \in NewlineRests :
      (out.input = RestLine(x) /\ out.err = NoErr) =>
        /\ out.rd.pos = RestStart + FirstIndexFrom(x, 1, newline)
        /\ Len(out.lm.Message) <= FirstIndexFrom(x, 1, newline)

\* C22: a legacy line with a valid priority, timestamp and hostname whose
\* text after the hostname ends without a newline is decoded without error,
\* whatever the text.
C22_NoNewlineIsTolerated ==
  (Returned /\ kind = "rfc3164" /\ out.input \in {RestLine(x) : x \in NoNewlineRests}) =>
    out.err = NoErr

\* C23: for a tag with a colon and an app-name, of every length up to 32
\* bytes, App is the app-name, PID the bytes between the brackets (empty
\* without brackets) and Message exactly the bytes that follow the tag's
\* space, through the newline or the end of input.
C23_TagFieldsAndMessage ==
  (Returned /\ kind = "rfc3164") =>
    \A c \in TagCases :
      out.input = RestLine(TagRest(c)) =>
        /\ out.err = NoErr
        /\ out.vals.App = c.app
        /\ out.vals.PID = c.pid
        /\ out.lm.Message = c.msg

\* C24: when the text after the hostname has no colon or no app-name, App
\* and PID are empty and Message is, byte for byte, everything after the
\* hostname's space through the newline or the end of input.
C24_NoTagIsMessageVerbatim ==
  (Returned /\ kind = "rfc3164") =>
    \A x \in NoTagRests :
      out.input = RestLine(x) =>
        /\ out.err = NoErr
        /\ out.vals.App = <<>>
        /\ out.vals.PID = <<>>
        /\ out.lm.Message = x

\* C25: the first colon ends the tag: App and PID hold only bytes that
\* precede the colon, whatever stands between the colon and the space.
C25_ColonEndsTheTag ==
  (Returned /\ kind = "rfc3164") =>
    \A c \in ColonCases :
      (out.input = RestLine(c.text) /\ out.err = NoErr) =>
        (out.vals.App = c.app /\ out.vals.PID = c.pid)

\* C26: a legacy line whose byte after the 15 bytes of the timestamp is not
\* a space is never decoded with success.
C26_SeparatorMustBeSpace ==
  (Returned /\ kind = "rfc3164" /\ out.input \in {SeparatorLine(x) : x \in BadSeparators}) =>
    out.err # NoErr

\* The bytes of a legacy line between the byte after the timestamp and the
\* next space.
WireHost(input) ==
  LET start == FirstIndexFrom(input, 1, greaterThan) + timestampLength + 2
  IN SubSeq(input, start, FirstIndexFrom(input, start, space) - 1)

\* C27: when the legacy decoder succeeds, Host is the bytes of the wire
\* between the timestamp's separator and the next space, however the source
\* splits the input into reads and however long the rest of the line is.
C27_HostIsWireBytes ==
  (Returned /\ kind = "rfc3164" /\ out.err = NoErr) => out.vals.Host = WireHost(out.input)

\* The result of a call of the package function fn.
ResultOf(fn) == kind = "package" /\ out # NoResult /\ out.fn = fn

\* The fixed layout of a legacy timestamp: 15 bytes, one of the 12 month
\* names, a day in 1..31 padded with a space or a zero, hour, minute and
\* second of two digits in 0..23, 0..59 and 0..60.
ValidStamp(b) ==
  /\ Len(b) = 15
  /\ b[4] = space /\ b[7] = space /\ b[10] = colon /\ b[13] = colon
  /\ \E m \in MonthNames : SubSeq(b, 1, 3) = B(m)
  /\ \/ b[5] = space /\ IsDigit(b[6]) /\ b[6] - 48 \in 1..9
     \/ Num2(b, 5) \in 1..31
  /\ Num2(b, 8) \in 0..23
  /\ Num2(b, 11) \in 0..59
  /\ Num2(b, 14) \in 0..60

\* C28: ParseTimestamp succeeds exactly when its input has the fixed layout
\* with a valid month, day, hour, minute and second (60 included); every
\* other input returns an error and the zero time.
C28_ParseTimestampAcceptsTheLayout ==
  ResultOf("ParseTimestamp") =>
    /\ out.err = NoErr <=> ValidStamp(out.input)
    /\ out.err # NoErr <=> out.time = ZeroTime

\* A day padded with a space and the second 60 are accepted.
C28_Witness ==
  /\ ResultOf("ParseTimestamp")
  /\ out.input = B("Dec  1 23:59:60")
  /\ out.err = NoErr /\ out.time # ZeroTime

\* C29: the time returned for a valid timestamp carries the current local
\* year, unless the same month, day and time of the current year is more
\* than 31 days after the current time: then it carries the previous year.
C29_YearIsCurrentOrPrevious ==
  (ResultOf("ParseTimestamp") /\ out.err = NoErr) =>
    LET b    == out.input
        cur  == YearOf(out.now)
        same == Date(cur, parseMonth(b[1], b[2], b[3]), parseDay(b[5], b[6]),
                     parseDoubleDigit(b[8], b[9]), parseDoubleDigit(b[11], b[12]),
                     parseDoubleDigit(b[14], b[15]))
    IN YearOf(out.time) = IF same > out.now + futureSkew THEN cur - 1 ELSE cur

\* Bit k of the natural number n.
Bit(n, k) == (n \div (2 ^ k)) % 2

\* C30: for every priority p in 0..191 the facility is p >> 3 and lies in
\* 0..23, the severity is p & 7 and lies in 0..7, and 8 * facility +
\* severity = p.
C30_FacilityAndSeverity ==
  ResultOf("FromPrio") =>
    /\ out.facility \in 0..23
    /\ out.severity \in 0..7
    /\ 8 * out.facility + out.severity = out.prio
    /\ \A k \in 0..4 : Bit(out.facility, k) = Bit(out.prio, k + 3)
    /\ \A k \in 0..2 : Bit(out.severity, k) = Bit(out.prio, k)

C30_Witness ==
  ResultOf("FromPrio") /\ out.prio = maxPrio /\ out.facility = 23 /\ out.severity = 7

\* C31: the versioned decoder has no limit of 2048 bytes of its own: a frame
\* whose content matches its declared length is accepted however many bytes
\* its length prefix and its header fields occupy.
C31_NoLimitOfItsOwn ==
  (Returned /\ kind = "rfc5424"
     /\ out.input \in {DashFrame(h, B("-"), B("-"), B("-")) : h \in LongHosts}) =>
    out.err = NoErr

\* C32: on every successful return of either decoder, MsgLength is the
\* number of bytes in Message.
C32_MsgLengthIsLenOfMessage ==
  (Returned /\ out.err = NoErr) => out.lm.MsgLength = Len(out.lm.Message)

\* A legacy line decoded with success whose message goes on behind the 32
\* bytes of the tag scan.
C32_Witness ==
  Returned /\ kind = "rfc3164" /\ out.err = NoErr /\ out.lm.MsgLength > maxTagLength

\* C33: ReadBytesUntilSpaceOrNilValue leaves the buffer empty when the field
\* it reads is a dash followed by a space, and a dash later in a field
\* neither ends the scan nor empties the buffer: the buffer then holds the
\* field up to its space.
C33_NilValueLeavesBufferEmpty ==
  ResultOf("ReadBytesUntilSpaceOrNilValue") =>
    LET msg == out.input IN
    /\ (Len(msg) >= 2 /\ msg[1] = dash /\ msg[2] = space) =>
          (out.err = NoErr /\ out.buffer = <<>>)
    /\ (\E k \in 3..Len(msg) : msg[k] = space /\ \A j \in 1..(k - 1) : msg[j] # space) =>
          (out.err = NoErr /\ out.buffer = SubSeq(msg, 1, FirstIndexFrom(msg, 1, space) - 1))

\* b is a decimal numeral.
IsNumeral(b) == Len(b) > 0 /\ \A i \in 1..Len(b) : b[i] \in 48..57

C35_NewUsesFirstRegistered ==
  kind = "registry" =>
    /\ \A t \in ParserTypes : types[t] # "nil" => types[t] = firstCall[t]
    /\ \A g \in Goroutines :
         (pc[g].op = "New" /\ pc[g].at = "return" /\ pc[g].quiet) =>
           pc[g].res = IF pc[g].expect = "nil" THEN ErrParserTypeUnknown ELSE pc[g].expect

\* Each goroutine has finished one call and is in its second; the first
\* Register call for "example" had f2; New("example") returns the parser of f2
\* in one goroutine and New("non-existing") ErrParserTypeUnknown in the other.
C35_Witness ==
  /\ kind = "registry"
  /\ firstCall["example"] = "f2" /\ firstCall["non-existing"] = "nil"
  /\ pc[1].n = 1 /\ pc[2].n = 1
  /\ pc[1].op = "New" /\ pc[1].at = "return" /\ pc[1].quiet /\ pc[1].t = "example"
  /\ pc[1].res = "f2"
  /\ pc[2].op = "New" /\ pc[2].at = "return" /\ pc[2].quiet /\ pc[2].t = "non-existing"
  /\ pc[2].res = ErrParserTypeUnknown

\* C40: under any interleaving of concurrent Register and New calls, every
\* access to the registry map is made while the registry lock is held by the
\* goroutine that makes it, and the map is never looked up by one call while
\* another call writes it.
C40_MapAccessUnderLock ==
  kind = "registry" =>
    /\ \A g \in Goroutines : pc[g].at \in {"lookup", "assign", "assigning"} => lock = g
    /\ ~ \E g, h \in Goroutines :
           g # h /\ pc[g].at = "lookup" /\ pc[h].at = "assigning"

\* C36: decoding a valid versioned frame succeeds and consumes exactly that
\* frame's bytes even when a further frame follows it in the same buffered
\* source: two back-to-back valid frames are returned, in order and without
\* error, by two successive ParseReader calls on that source.
C36_BackToBackFrames ==
  (Returned /\ kind = "rfc5424") =>
    \A b \in BackToBack :
      /\ (calls = 1 /\ out.input = b.f \o b.g) =>
           /\ out.err = NoErr
           /\ out.rd.pos = Len(b.f)
           /\ out.vals = Return(ParseReader5424(NewInstance, b.f), b.f).vals
      /\ (calls = 2 /\ first.input = b.f \o b.g /\ out.input = b.g) =>
           /\ out.err = NoErr
           /\ out.vals = Return(ParseReader5424(NewInstance, b.g), b.g).vals

\* The record fields of state n and of every later state are at their zero
\* value (states in the order of C37).
ZeroFrom(n) ==
  /\ n <= 1 => out.lm.Priority = 0 /\ out.lm.Facility = 0 /\ out.lm.Severity = 0
  /\ n <= 2 => out.lm.ProtoVersion = 0
  /\ n <= 3 => out.lm.Timestamp = NewLogMsg("").Timestamp
  /\ n <= 4 => out.lm.Host = NilSlice
  /\ n <= 5 => out.lm.App = NilSlice
  /\ n <= 6 => out.lm.PID = NilSlice
  /\ n <= 7 => out.lm.MsgID = NilSlice
  /\ n <= 8 => out.lm.StructuredData = NilSD
  /\ n <= 9 => out.lm.Message = <<>> /\ out.lm.MsgLength = 0

\* The state in which the first n bytes of the frame of PrefixFrames end.
StateOfPrefix(n) ==
  LET UpTo(t) == Len(B(t))
  IN IF n < UpTo("34 <14>") THEN 1
     ELSE IF n < UpTo("34 <14>1 ") THEN 2
     ELSE IF n < UpTo("34 <14>1 - ") THEN 3
     ELSE IF n < UpTo("34 <14>1 - h ") THEN 4
     ELSE IF n < UpTo("34 <14>1 - h a ") THEN 5
     ELSE IF n < UpTo("34 <14>1 - h a p ") THEN 6
     ELSE IF n < UpTo("34 <14>1 - h a p m ") THEN 7
     ELSE IF n < UpTo("34 <14>1 - h a p m [id@1 k=\"v\"]") THEN 8 ELSE 9

FreshResult ==
  IF kind = "rfc5424" THEN Return(ParseReader5424(NewInstance, out.input), out.input)
  ELSE Return(ParseReader3164(NewInstance, out.input, out.rd.chunk), out.input)

\* C38: the record and the error returned by a decode call depend only on the
\* bytes supplied to that call: an instance that has been used for a successful
\* or failed decode returns what a freshly created instance returns on the
\* same input.
C38_UsedInstanceSameAsFresh ==
  (Returned /\ calls >= 2) =>
    \A fresh \in {FreshResult} :
      /\ out.err = fresh.err
      /\ out.vals = fresh.vals
      /\ \A f \in {"Type", "Priority", "Facility", "Severity", "ProtoVersion", "Timestamp",
                    "HasBOM", "Message", "MsgLength"} : out.lm[f] = fresh.lm[f]

\* The instance decoded a frame, and then another frame with a hostname and
\* structured data.
C38_Witness ==
  /\ Returned /\ calls = 2 /\ kind = "rfc5424"
  /\ first.err = NoErr /\ first.input # out.input
  /\ out.err = NoErr
  /\ Len(out.vals.Host) > 0 /\ Len(out.vals.StructuredData) > 1

\* C39: the legacy tag scan examines at most 32 bytes after the hostname: when
\* no space or newline occurs within those 32 bytes, a colon that first occurs
\* after them produces no tag, App and PID stay empty, and the scanned bytes
\* together with the rest of the line (with or without its newline) are
\* returned as Message.
C39_LateColonIsNoTag ==
  (Returned /\ kind = "rfc3164") =>
    \A c \in LateColonRests :
      out.input = RestLine(c.head \o c.tail) =>
        LET ends == {i \in 1..Len(c.tail) : c.tail[i] = newline}
            line == IF ends = {} THEN c.tail
                    ELSE SubSeq(c.tail, 1, CHOOSE i \in ends : \A j \in ends : i <= j)
        IN /\ out.err = NoErr
           /\ out.lm.App = NilSlice /\ out.lm.PID = NilSlice
           /\ out.vals.App = <<>> /\ out.vals.PID = <<>>
           /\ out.lm.Message \in {c.head \o line} \cup
                {c.head \o SubSeq(line, 1, Len(line) - 1) : x \in ends}

\* The 32 bytes of the scan hold a process id in brackets and the colon comes
\* two bytes behind them; the source delivers a few bytes at a time.
C39_Witness ==
  /\ Returned /\ kind = "rfc3164"
  /\ out.input = RestLine(As(20) \o B("[123]") \o As(maxTagLength - 25) \o B("A: x") \o <<newline>>)
  /\ out.rd.chunk < bufioSize
  /\ out.err = NoErr
  /\ out.lm.MsgLength = maxTagLength + 5

=============================================================================
